---------------------------- MODULE Spec2Model ----------------------------
(***************************************************************************)
(* A model of haproxy-consul-connect: the convergence loop (HAProxy.watch) *)
(* with the state generator, the renderer and the config writer it calls,  *)
(* the authorization cache of the SPOE handler, the certificate store      *)
(* (haConfig.FilePath) and the mesh watcher (consul.Watcher).              *)
(*                                                                         *)
(* Durations are in milliseconds.  The convergence loop's clock advances   *)
(* in steps of TimeStep (100 ms) and only its position inside the 500 ms   *)
(* ticker period is kept; the authorization cache's clock advances in      *)
(* steps of AuthStep (500 ms).                                             *)
(***************************************************************************)
EXTENDS Integers, Sequences, FiniteSets, TLC

(***************************************************************************)
(* Program constants.                                                      *)
(***************************************************************************)
stateApplyThrottle == 500
retryBackoff == 3000
authzTimeout == 1000
cacheTTL == 1000
errorWaitTime == 5000
maxRetries == 60

(***************************************************************************)
(* Bounds of the model.                                                    *)
(***************************************************************************)
\* snapshots the watcher sends on cfgC during one run
MaxSnapshots == 3
\* failures the environment injects (store, render, write, validate, ...)
MaxFailures == 1

\* the convergence loop's clock step: a fifth of the ticker period
TimeStep == stateApplyThrottle \div 5

\* isAuthorized calls made (and FilePath calls made), and the time the
\* responder is observed for
MaxCallers == 3
MaxTime == 2000

\* the responder's clock advances by this much (ms)
AuthStep == cacheTTL \div 2

\* upstream goroutines the watcher starts during one run, and the changes
\* after the first responses (or failed first polls) of the control plane
MaxUpstreams == 2
MaxChanges == 1
\* the largest component of a version the haproxy binary reports
MaxVersionPart == 4
\* endpoints of an upstream in a snapshot
MaxNodes == 3
\* -haproxy-param flags on the command line
MaxFlags == 3
\* lines with the ready marker the proxy prints on one of its outputs
MaxLines == 3

(***************************************************************************)
(* Mesh snapshots (consul.Config) the watcher can send.                    *)
(***************************************************************************)
TLS1 == [Cert |-> "leaf1", Key |-> "key1", CAs |-> <<"ca1">>]

Node(host, port, weight) == [Host |-> host, Port |-> port, Weight |-> weight]

MkDownstream(targetPort) ==
    [LocalBindAddress |-> "0.0.0.0", LocalBindPort |-> 20000,
     TargetAddress |-> "127.0.0.1", TargetPort |-> targetPort,
     Protocol |-> "http", ConnectTimeout |-> 30000, ReadTimeout |-> 60000,
     EnableForwardFor |-> FALSE, AppNameHeaderName |-> "", TLS |-> TLS1]

MkUpstream(name, nodes) ==
    [Name |-> name, LocalBindAddress |-> "127.0.0.1", LocalBindPort |-> 9000,
     Protocol |-> "tcp", ConnectTimeout |-> 30000, ReadTimeout |-> 60000,
     TLS |-> TLS1, Nodes |-> nodes]

MkConfig(targetPort, ups) ==
    [ServiceName |-> "web", ServiceID |-> "web-1",
     Downstream |-> MkDownstream(targetPort), Upstreams |-> ups]

CfgA == MkConfig(8080, <<>>)
CfgB == MkConfig(8080, <<MkUpstream("svc_a", <<Node("10.0.0.1", 80, 1)>>)>>)
Configs == {CfgA, CfgB}

\* the zero consul.Config and the zero state.State of watch's locals
ZeroConfig == [ServiceName |-> "", ServiceID |-> "",
               Downstream |-> [LocalBindAddress |-> "", LocalBindPort |-> 0,
                    TargetAddress |-> "", TargetPort |-> 0, Protocol |-> "",
                    ConnectTimeout |-> 0, ReadTimeout |-> 0,
                    EnableForwardFor |-> FALSE, AppNameHeaderName |-> "",
                    TLS |-> [Cert |-> "", Key |-> "", CAs |-> <<>>]],
               Upstreams |-> <<>>]
ZeroState == [Frontends |-> <<>>, Backends |-> <<>>]

(***************************************************************************)
(* Options of the run (state.Options).                                     *)
(***************************************************************************)
Opts == [EnableIntentions |-> FALSE, LogRequests |-> FALSE, LogSocket |-> "",
         SPOEConfigPath |-> "spoe.conf", SPOESocket |-> "spoe.sock"]

(***************************************************************************)
(* Certificate store: content-addressed paths.                             *)
(***************************************************************************)
\* haConfig.FilePath: <base>/<hex sha256 of content>; the hash is modelled
\* as the content itself, which keeps it injective
FilePath(content) == <<"base", content>>

\* haConfig.CertsPath: (caPath, crtPath) of a TLS triple
CertsPath(t) == [ca |-> FilePath(t.CAs), crt |-> FilePath(<<t.Cert, t.Key>>)]

(***************************************************************************)
(* State generator.                                                        *)
(***************************************************************************)
NoFilter == [Set |-> FALSE, SpoeEngine |-> "", SpoeConfig |-> "", Cond |-> ""]
NoLogTarget == [Set |-> FALSE, Address |-> ""]

LogTargetOf(opts) ==
    IF opts.LogRequests /\ opts.LogSocket # ""
    THEN [Set |-> TRUE, Address |-> opts.LogSocket] ELSE NoLogTarget

CheckedServer(name, addr, port) ==
    [Name |-> name, Address |-> addr, Port |-> port, Weight |-> 0,
     HasWeight |-> FALSE, Ssl |-> FALSE, SslCertificate |-> <<>>,
     SslCafile |-> <<>>, Verify |-> "", Maintenance |-> "disabled",
     Check |-> "enabled", Inter |-> 300000, Fastinter |-> 2000,
     Downinter |-> 2000, Rise |-> 1, Fall |-> 1, Observe |-> "layer4",
     ErrorLimit |-> 1, OnError |-> "mark-down"]

\* generateDownstream when CertsPath fails: the state as it was passed
generateDownstreamErr(opts, cfg, state) == state

generateDownstream(opts, cfg, state) ==
    LET feMode == IF cfg.Protocol = "tcp" THEN "tcp" ELSE "http"
        paths == CertsPath(cfg.TLS)
        fe == [Name |-> "front_downstream", DefaultBackend |-> "back_downstream",
               ClientTimeout |-> cfg.ReadTimeout, Mode |-> feMode,
               Httplog |-> opts.LogRequests,
               Bind |-> [Name |-> "front_downstream_bind",
                         Address |-> cfg.LocalBindAddress,
                         Port |-> cfg.LocalBindPort, Ssl |-> TRUE,
                         SslCertificate |-> paths.crt, SslCafile |-> paths.ca,
                         Verify |-> "none"],
               FilterCompression |-> TRUE,
               FilterSpoe |-> IF opts.EnableIntentions
                              THEN [Set |-> TRUE, SpoeEngine |-> "intentions",
                                    SpoeConfig |-> opts.SPOEConfigPath,
                                    Cond |-> "unless"]
                              ELSE NoFilter,
               LogTarget |-> LogTargetOf(opts)]
        be == [Name |-> "back_downstream", ServerTimeout |-> cfg.ReadTimeout,
               ConnectTimeout |-> cfg.ConnectTimeout, Mode |-> feMode,
               Forwardfor |-> cfg.EnableForwardFor /\ feMode = "http",
               Balance |-> "roundrobin", Retries |-> 0,
               LogTarget |-> LogTargetOf(opts),
               HTTPRequestRules |->
                   IF cfg.AppNameHeaderName # "" /\ feMode = "http"
                   THEN <<[Type |-> "add-header",
                           HdrName |-> cfg.AppNameHeaderName,
                           HdrFormat |-> "%[var(sess.connect.source_app)]"]>>
                   ELSE <<>>,
               Servers |-> <<CheckedServer("downstream_node",
                                           cfg.TargetAddress, cfg.TargetPort)>>]
    IN  [Frontends |-> Append(state.Frontends, fe),
         Backends |-> Append(state.Backends, be)]

\* (mutant) the servers are numbered from 1
SrvNameFromOne(i) == "srv_" \o ToString(i + 1)

\* srv_<i>: Go's %d of the 0-based index
SrvName(i) == "srv_" \o ToString(i)

generateUpstreamServers(cfg) ==
    LET paths == CertsPath(cfg.TLS)
    IN  [i \in 1..Len(cfg.Nodes) |->
            [CheckedServer(SrvName(i - 1), cfg.Nodes[i].Host, cfg.Nodes[i].Port)
                EXCEPT !.Weight = cfg.Nodes[i].Weight, !.HasWeight = TRUE,
                       !.Ssl = TRUE, !.SslCertificate = paths.crt,
                       !.SslCafile = paths.ca, !.Verify = "none"]]

generateUpstream(opts, cfg, newState) ==
    LET feName == "front_" \o cfg.Name
        beName == "back_" \o cfg.Name
        feMode == IF cfg.Protocol = "http" THEN "http" ELSE "tcp"
        fe == [Name |-> feName, DefaultBackend |-> beName,
               ClientTimeout |-> cfg.ReadTimeout, Mode |-> feMode,
               Httplog |-> opts.LogRequests,
               Bind |-> [Name |-> feName \o "_bind",
                         Address |-> cfg.LocalBindAddress,
                         Port |-> cfg.LocalBindPort, Ssl |-> FALSE,
                         SslCertificate |-> <<>>, SslCafile |-> <<>>,
                         Verify |-> ""],
               FilterCompression |-> feMode = "http",
               FilterSpoe |-> NoFilter,
               LogTarget |-> LogTargetOf(opts)]
        servers == generateUpstreamServers(cfg)
        retries == IF Len(servers) - 1 < 1 THEN 1 ELSE Len(servers) - 1
        be == [Name |-> beName, ServerTimeout |-> cfg.ReadTimeout,
               ConnectTimeout |-> cfg.ConnectTimeout, Mode |-> feMode,
               Forwardfor |-> FALSE, Balance |-> "leastconn",
               Retries |-> retries, LogTarget |-> LogTargetOf(opts),
               HTTPRequestRules |-> <<>>, Servers |-> servers]
    IN  [Frontends |-> Append(newState.Frontends, fe),
         Backends |-> Append(newState.Backends, be)]

\* generateUpstream when generateUpstreamServers fails on the certificate
\* store: the frontend has been appended to newState, the backend has not
generateUpstreamErr(opts, cfg, newState) ==
    [Frontends |-> generateUpstream(opts, cfg, newState).Frontends,
     Backends |-> newState.Backends]

RECURSIVE GenerateUpstreams(_, _, _)
GenerateUpstreams(opts, ups, st) ==
    IF ups = <<>> THEN st
    ELSE GenerateUpstreams(opts, Tail(ups), generateUpstream(opts, Head(ups), st))

\* state.Generate when the certificate store answers: the downstream pair,
\* then one frontend/backend pair per upstream in snapshot order
Generate(opts, cfg) ==
    GenerateUpstreams(opts, cfg.Upstreams,
                      generateDownstream(opts, cfg.Downstream, ZeroState))

\* state.Generate when the certificate store fails at step k (0: in
\* generateDownstream, k: in upstream k): the state built up to the failure
GenerateFailed(opts, cfg, k) ==
    IF k = 0 THEN generateDownstreamErr(opts, cfg.Downstream, ZeroState)
    ELSE generateUpstreamErr(opts, cfg.Upstreams[k],
             GenerateUpstreams(opts, SubSeq(cfg.Upstreams, 1, k - 1),
                 generateDownstream(opts, cfg.Downstream, ZeroState)))

\* State.Equal: structural equality
Equal(a, b) == a = b

(***************************************************************************)
(* Renderer: the directives configTemplate emits for a state.              *)
(***************************************************************************)
RenderBind(b) ==
    IF b.Address = "" THEN <<>>
    ELSE <<[Address |-> b.Address, Port |-> b.Port, Ssl |-> b.Ssl,
            Crt |-> IF b.Ssl THEN b.SslCertificate ELSE <<>>,
            CaFile |-> IF b.Ssl THEN b.SslCafile ELSE <<>>,
            Verify |-> IF b.Ssl THEN b.Verify ELSE ""]>>

RenderFrontend(f) ==
    [frontend |-> f.Name, mode |-> f.Mode, bind |-> RenderBind(f.Bind),
     default_backend |-> f.DefaultBackend, timeout_client |-> f.ClientTimeout,
     option_httplog |-> f.Httplog,
     filter_spoe |-> f.FilterSpoe, filter_compression |-> f.FilterCompression,
     log |-> f.LogTarget]

RenderServer(s) ==
    [server |-> s.Name, address |-> s.Address, port |-> s.Port,
     ssl |-> s.Ssl,
     crt |-> IF s.Ssl THEN s.SslCertificate ELSE <<>>,
     ca_file |-> IF s.Ssl THEN s.SslCafile ELSE <<>>,
     verify |-> IF s.Ssl THEN s.Verify ELSE "",
     weight |-> IF s.HasWeight THEN <<s.Weight>> ELSE <<>>,
     disabled |-> s.Maintenance = "enabled",
     check |-> s.Check = "enabled"]

RenderBackend(b) ==
    [backend |-> b.Name, mode |-> b.Mode, balance |-> b.Balance,
     timeout_server |-> b.ServerTimeout, timeout_connect |-> b.ConnectTimeout,
     option_forwardfor |-> b.Forwardfor, log |-> b.LogTarget,
     http_request |-> b.HTTPRequestRules,
     servers |-> [i \in 1..Len(b.Servers) |-> RenderServer(b.Servers[i])]]

\* Renderer.Render: the text, as the list of sections it contains
Render(st) ==
    [Base |-> FALSE,
     Frontends |-> [i \in 1..Len(st.Frontends) |-> RenderFrontend(st.Frontends[i])],
     Backends |-> [i \in 1..Len(st.Backends) |-> RenderBackend(st.Backends[i])]]

\* the text newHaConfig writes to haproxy.conf: global and defaults only
BaseText == [Base |-> TRUE, Frontends |-> <<>>, Backends |-> <<>>]
\* the empty string: a file cut short by a failed write, an unset text
EmptyText == [Base |-> FALSE, Frontends |-> <<>>, Backends |-> <<>>]


(***************************************************************************)
(* State.                                                                  *)
(***************************************************************************)
VARIABLES
    \* HAProxy.watch: position and locals
    pc, inputReceived, currentConfig, currentState, started, ready,
    newState, config, retErr,
    \* ConfigWriter.ApplyConfig: position, files, master PID
    step, tmpFile, cfgFile, masterPID, validated,
    \* channels and signals around the loop; reloads counts the SIGUSR2 sent
    stop, throttle, readyCloses, reloads, lastReload,
    \* environment: clock phase, snapshots sent, failures left to inject
    clock, sent, failBudget,
    \* history of the deliveries on cfgC
    sinceRecv, tickSeen, lastGap, tickBetween, allSame, lastDelivered,
    \* history of the ApplyConfig calls
    applyCalls, applyOks, lastApply, appliesSinceTick, callEntry,
    \* haproxy_cmd.Start: the ready channel (capacity 1), and, while Start
    \* waits, whether shutdown had been requested when the marker was read
    readyCh, markerAfterStop

watchVars == <<pc, inputReceived, currentConfig, currentState, started, ready,
               newState, config, retErr>>
writerVars == <<step, tmpFile, cfgFile, masterPID, validated>>
signalVars == <<stop, throttle, readyCloses, reloads, lastReload>>
envVars == <<clock, sent, failBudget>>
recvVars == <<sinceRecv, tickSeen, lastGap, tickBetween, allSame,
              lastDelivered>>
applyVars == <<applyCalls, applyOks, lastApply, appliesSinceTick, callEntry>>

supVars == <<readyCh, markerAfterStop>>

loopVars == <<watchVars, writerVars, signalVars, envVars, recvVars, applyVars,
              supVars>>

VARIABLES
    \* SPOEHandler: the cache entries ever allocated, and the one authCache
    \* holds for the URI (0: none)
    heap, authCache,
    \* wall clock of the responder
    now,
    \* isAuthorized calls: position, the entry waited on, time of the call,
    \* the returned pair
    callPc, waitOn, callStart, callRes,
    \* history of each call: the entry found in authCache, whether the call
    \* launched a fetch, the calls that had not returned when it started
    seen, issued, overlap,
    \* history: a fetch has failed since the last call was made, and whether
    \* that was so when each call was made
    failedSince, afterFail,
    \* SPOEHandler.Handler: the session variables set on each request
    setVars

authVars == <<heap, authCache, now, callPc, waitOn, callStart, callRes, seen,
              issued, overlap, failedSince, afterFail, setVars>>

VARIABLES
    \* the certificate directory: the bytes of the file at each path
    files,
    \* FilePath calls: position, the content passed, the returned pair
    fpPc, fpContent, fpRet,
    \* history of each call: the file was there when the call was made, the
    \* call opened the file for writing
    fpExisted, fpOpened,
    \* file-system failures still to come
    fsBudget

storeVars == <<files, fpPc, fpContent, fpRet, fpExisted, fpOpened, fsBudget>>

VARIABLES
    \* Watcher.Run: its position, the counter of w.ready, the signals pending
    \* in w.update (capacity 1)
    runPc, wgReady, update,
    \* w.upstreams (name -> index of its record in ups, 0: absent) and the
    \* upstream records with the goroutine polling each
    upstreams, ups,
    \* watchCA, watchLeaf, watchService: position and the local `first`
    subPc, subFirst,
    \* the sidecar definition watchService handled last (0: none yet)
    svcDef,
    \* history: how far the last write to the shared state has got ("none":
    \* no write yet, "written", "built": a snapshot was built after it,
    \* "sent": such a snapshot was received from w.C)
    reflects,
    \* changes and failed first polls the control plane still has in store
    wBudget,
    \* the snapshot genCfg built and Run is sending on w.C
    snap

VARIABLES
    \* what the control plane answers in this run: the sidecar definitions,
    \* the CA root lists and the target port the registrations supply at
    \* start-up (0: none)
    offered,
    \* w.downstream, and the target port Run found at start-up
    downstream, startPort,
    \* the backing arrays allocated for w.certCAs, and the slice w.certCAs
    \* (arr: index of its backing array, 0 for nil; len)
    caHeap, certCAs,
    \* the Downstream part of the snapshot genCfg built, with the sidecar
    \* definition handled last and whether its handler was still running
    snapDown,
    \* the CA slice of the snapshot the consumer received last, with the
    \* content it had on receipt
    received

VARIABLES
    \* per subscriber, and per upstream goroutine (by the index of its
    \* record): the continuation token it passes to the next call (0: the
    \* zero value, 1: that of the last response) and the time.Sleep it is
    \* in (ms, 0: none)
    poller, upPoller

pollVars == <<poller, upPoller>>

VARIABLES
    \* the services registered with the local agent (what Agent().Services()
    \* returns), and the locals of Run's discovery loop: i, retryDelay, the
    \* duration of the last time.Sleep (0: none yet), proxyID and whether
    \* err is non-nil
    services, lookup

discVars == <<services, lookup>>

bindVars == <<offered, downstream, startPort, caHeap, certCAs, snapDown, received>>

watcherVars == <<runPc, wgReady, update, upstreams, ups, subPc, subFirst,
                 svcDef, reflects, wBudget, snap, bindVars, pollVars, discVars>>

VARIABLES
    \* a call of one of the program's pure functions: the function called
    \* with its arguments, and what it returned (NoRet until it returns)
    fnArgs, fnRet

VARIABLES
    \* the log readers of the supervisor (one per output of the proxy): the
    \* position of each (scanning, or at the send of the ready signal) and
    \* the marker lines they have read so far
    logPc, drained

readerVars == <<logPc, drained>>

VARIABLES
    \* the counter of the global shutdown barrier (lib.Shutdown), main at
    \* sd.Wait(), the task running hap.Run, newHaConfig's position, its
    \* cleanup task, and whether the base directory exists
    sdCount, mainPc, hapPc, cfgPc, cleanupPc, baseDir

sdVars == <<sdCount, mainPc, hapPc, cfgPc, cleanupPc, baseDir>>

VARIABLES
    \* history: how many times each field of the watcher has been written,
    \* and the counts read by the snapshot under construction and by the
    \* last two snapshots sent
    order

orderVars == <<order>>

\* the tasks of the process beside the four components, and the history
\* of the watcher's writes
sideVars == <<readerVars, sdVars, orderVars>>

fnVars == <<fnArgs, fnRet>>

\* what the actions of one component leave alone
nonLoopVars == <<authVars, storeVars, watcherVars, fnVars, sideVars>>
nonAuthVars == <<loopVars, storeVars, watcherVars, fnVars, sideVars>>
nonStoreVars == <<loopVars, authVars, watcherVars, fnVars, sideVars>>
\* what a step of the watcher leaves alone when it touches neither the
\* downstream binding nor the CA list
otherVars == <<authVars, storeVars, fnVars, sideVars>>
\* the same without the history of the watcher's writes
besideOrder == <<authVars, storeVars, fnVars, readerVars, sdVars>>
nonWatcherVars == <<otherVars, bindVars, pollVars, discVars>>
outsideWatcher == <<loopVars, otherVars, pollVars, discVars>>
nonFnVars == <<loopVars, authVars, storeVars, watcherVars, sideVars>>

\* no call, nothing returned
NoArgs == <<"none">>
NoRet == <<"none">>

\* the outputs of the proxy the supervisor tails
Readers == {"stdout", "stderr"}

InitReaders ==
    /\ logPc = [r \in Readers |-> "scan"]
    /\ drained = 0

\* main after `sd.Add(1)` and `go func() { defer sd.Done(); hap.Run(sd) }`,
\* at sd.Wait()
InitShutdown ==
    /\ sdCount = 1
    /\ mainPc = "wait"
    /\ hapPc = "running"
    /\ cfgPc = "idle"
    /\ cleanupPc = "none"
    /\ baseDir = FALSE

\* no field written, no snapshot built or sent
NoVersions == [f \in {} |-> 0]
NewOrder == [ver |-> NoVersions, built |-> NoVersions, prev |-> NoVersions,
             last |-> NoVersions, sent |-> 0]

InitSide == InitReaders /\ InitShutdown /\ order = NewOrder

InitFn ==
    /\ fnArgs = NoArgs
    /\ fnRet = NoRet

NoErr == [kind |-> "", output |-> ""]
Err(kind, output) == [kind |-> kind, output |-> output]

\* PID of the proxy master once Start has returned it
ProxyPID == 4242

NoReload == [pid |-> 0, installed |-> BaseText, text |-> EmptyText,
             validated |-> FALSE]
NoCall == [cfg |-> BaseText, reloads |-> 0]
NoApply == [text |-> EmptyText, err |-> NoErr, cfgBefore |-> BaseText,
            reloadsBefore |-> 0, cfgAfter |-> BaseText, tmpAfter |-> <<>>,
            reloadsAfter |-> 0]

\* the longest gap between deliveries the history tells apart
GapCap == 2 * TimeStep

InitLoop ==
    /\ pc = "Throttle"
    /\ inputReceived = FALSE
    /\ currentConfig = ZeroConfig
    /\ currentState = ZeroState
    /\ started = FALSE
    /\ ready = FALSE
    /\ newState = ZeroState
    /\ config = EmptyText
    /\ retErr = NoErr
    /\ step = 0
    /\ tmpFile = <<>>
    /\ cfgFile = BaseText
    /\ masterPID = 0
    /\ validated = FALSE
    /\ stop = FALSE
    /\ throttle = 0
    /\ readyCloses = 0
    /\ reloads = 0
    /\ lastReload = NoReload
    /\ clock = 0
    /\ sent = 0
    /\ failBudget = MaxFailures
    /\ sinceRecv = GapCap
    /\ tickSeen = FALSE
    /\ lastGap = GapCap
    /\ tickBetween = FALSE
    /\ allSame = TRUE
    /\ lastDelivered = ZeroConfig
    /\ applyCalls = 0
    /\ applyOks = 0
    /\ lastApply = NoApply
    /\ appliesSinceTick = 0
    /\ callEntry = NoCall
    /\ readyCh = 0
    /\ markerAfterStop = FALSE

(***************************************************************************)
(* Environment of the loop.                                                *)
(***************************************************************************)
Saturate(ms) == IF ms > GapCap THEN GapCap ELSE ms

\* TimeStep ms pass; the free-running ticker (time.Tick, a channel of
\* capacity 1) fires at the end of each period and drops the tick when the
\* previous one has not been consumed
Advance ==
    /\ clock' = (clock + TimeStep) % stateApplyThrottle
    /\ throttle' = IF clock + TimeStep >= stateApplyThrottle THEN 1 ELSE throttle
    /\ sinceRecv' = Saturate(sinceRecv + TimeStep)
    /\ UNCHANGED <<watchVars, writerVars, stop, readyCloses, reloads,
                   lastReload, sent, failBudget, tickSeen, lastGap,
                   tickBetween, allSame, lastDelivered, applyVars>>
    /\ UNCHANGED supVars
    /\ UNCHANGED nonLoopVars

\* lib.Shutdown: sd.Stop is closed
Shutdown ==
    /\ ~stop
    /\ stop' = TRUE
    /\ UNCHANGED <<watchVars, writerVars, throttle, readyCloses, reloads,
                   lastReload, envVars, recvVars, applyVars>>
    /\ UNCHANGED supVars
    /\ UNCHANGED nonLoopVars

(***************************************************************************)
(* HAProxy.watch: the throttle window.                                     *)
(***************************************************************************)
\* (mutant) every round starts the proxy
StartEveryRound == "Start"

\* the statement after the Throttle loop: start the proxy once
AfterThrottle == IF started THEN "Generate" ELSE "Start"

\* case <-sd.Stop
ThrottleStop ==
    /\ pc = "Throttle" /\ stop
    /\ pc' = "Done"
    /\ retErr' = NoErr
    /\ UNCHANGED <<inputReceived, currentConfig, currentState, started, ready,
                   newState, config, writerVars, signalVars, envVars,
                   recvVars, applyVars>>
    /\ UNCHANGED supVars
    /\ UNCHANGED nonLoopVars

\* case <-throttle: leave the window when an input has been received
ThrottleTick ==
    /\ pc = "Throttle" /\ throttle = 1
    /\ throttle' = 0
    /\ pc' = IF inputReceived THEN AfterThrottle ELSE "Throttle"
    /\ tickSeen' = TRUE
    /\ appliesSinceTick' = 0
    /\ UNCHANGED <<inputReceived, currentConfig, currentState, started, ready,
                   newState, config, retErr, writerVars, stop, readyCloses,
                   reloads, lastReload, envVars, sinceRecv, lastGap,
                   tickBetween, allSame, lastDelivered, applyCalls, applyOks,
                   lastApply, callEntry>>
    /\ UNCHANGED supVars
    /\ UNCHANGED nonLoopVars

\* (mutant) only the first snapshot of a window is kept
ConfigKeptFromFirstInput(cur, c) == IF inputReceived THEN cur ELSE c

\* what `case c := <-h.cfgC` leaves in currentConfig
ConfigAfterRecv(cur, c) == c

\* (mutant) a snapshot leaves the window at once
PcBreakOnInput == AfterThrottle

\* where `case c := <-h.cfgC` leaves the loop: still in the Throttle select
PcAfterRecv == "Throttle"

\* case c := <-h.cfgC: the watcher's blocking send meets the receive
RecvCfg ==
    /\ pc = "Throttle" /\ sent < MaxSnapshots
    /\ pc' = PcAfterRecv
    /\ \E c \in Configs :
         /\ currentConfig' = ConfigAfterRecv(currentConfig, c)
         /\ lastDelivered' = c
         /\ allSame' = (allSame /\ (sent = 0 \/ c = currentConfig))
    /\ inputReceived' = TRUE
    /\ sent' = sent + 1
    /\ lastGap' = sinceRecv
    /\ tickBetween' = tickSeen
    /\ sinceRecv' = 0
    /\ tickSeen' = FALSE
    /\ UNCHANGED <<currentState, started, ready, newState, config, retErr,
                   writerVars, signalVars, clock, failBudget, applyVars>>
    /\ UNCHANGED supVars
    /\ UNCHANGED nonLoopVars

(***************************************************************************)
(* HAProxy.watch: one round.                                               *)
(***************************************************************************)
\* halog.NewWithReadySignal: a log reader reads a line with the ready marker
\* while Start waits, and sends on readyCh without blocking (a send on the
\* full channel is dropped)
LogReady ==
    /\ pc = "Start" /\ readyCh = 0
    /\ readyCh' = 1
    /\ markerAfterStop' = stop
    /\ UNCHANGED <<watchVars, writerVars, signalVars, envVars, recvVars,
                   applyVars>>
    /\ UNCHANGED nonLoopVars

\* (mutant) Start does not wait for the ready signal
ReadyAssumed(ch) == TRUE

\* case <-readyCh can be taken
ReadySignalled(ch) == ch = 1

\* h.start -> haproxy_cmd.Start: case <-readyCh; the master PID is returned
\* and the config writer is built with it
StartReady ==
    /\ pc = "Start"
    /\ ReadySignalled(readyCh)
    /\ readyCh' = 0
    /\ masterPID' = ProxyPID
    /\ started' = TRUE
    /\ pc' = "Generate"
    /\ UNCHANGED <<inputReceived, currentConfig, currentState, ready, newState,
                   config, retErr, step, tmpFile, cfgFile, validated,
                   signalVars, envVars, recvVars, applyVars>>
    /\ markerAfterStop' = FALSE
    /\ UNCHANGED nonLoopVars

\* Start: haproxyReadyTimeout elapsed, or the command could not be run
StartTimeout ==
    /\ pc = "Start" /\ failBudget > 0
    /\ failBudget' = failBudget - 1
    /\ pc' = "Done"
    /\ retErr' = Err("start", "timeout waiting for HAProxy to be ready")
    /\ UNCHANGED <<inputReceived, currentConfig, currentState, started, ready,
                   newState, config, writerVars, signalVars, clock, sent,
                   recvVars, applyVars>>
    /\ markerAfterStop' = FALSE
    /\ UNCHANGED readyCh
    /\ UNCHANGED nonLoopVars

\* Start: case <-sd.Stop
StartShutdown ==
    /\ pc = "Start" /\ stop
    /\ pc' = "Done"
    /\ retErr' = Err("start", "shutdown requested")
    /\ UNCHANGED <<inputReceived, currentConfig, currentState, started, ready,
                   newState, config, writerVars, signalVars, envVars,
                   recvVars, applyVars>>
    /\ markerAfterStop' = FALSE
    /\ UNCHANGED readyCh
    /\ UNCHANGED nonLoopVars

\* (mutant) the comparison with the last-applied state is skipped
AlwaysApply(cur, new) == TRUE

\* the round goes on to render unless the generated state equals the
\* last-applied one
NeedsApply(cur, new) == ~Equal(cur, new)

\* state.Generate succeeded; `continue` when there is no change to apply
GenerateOk ==
    /\ pc = "Generate"
    /\ LET new == Generate(Opts, currentConfig)
       IN  IF NeedsApply(currentState, new)
           THEN pc' = "Render" /\ newState' = new /\ UNCHANGED inputReceived
           ELSE pc' = "Throttle" /\ newState' = ZeroState
                /\ inputReceived' = FALSE
    /\ UNCHANGED <<currentConfig, currentState, started, ready, config, retErr,
                   writerVars, signalVars, envVars, recvVars, applyVars>>
    /\ UNCHANGED supVars
    /\ UNCHANGED nonLoopVars

\* (mutant) the round goes on with the state Generate returned with its error
RenderAfterGenerateErr == "Render"

\* where the round goes after a failed Generate: `continue`, to the top of
\* the loop
AfterGenerateErr == "Throttle"

\* state.Generate failed (the certificate store returned an error): log and
\* `continue`, with no retry scheduled
GenerateErr ==
    /\ pc = "Generate" /\ failBudget > 0
    /\ failBudget' = failBudget - 1
    /\ \E k \in 0..Len(currentConfig.Upstreams) :
           newState' = GenerateFailed(Opts, currentConfig, k)
    /\ pc' = AfterGenerateErr
    /\ inputReceived' = FALSE
    /\ UNCHANGED <<currentConfig, currentState, started, ready,
                   config, retErr, writerVars, signalVars, clock, sent,
                   recvVars, applyVars>>
    /\ UNCHANGED supVars
    /\ UNCHANGED nonLoopVars

\* h.renderer.Render succeeded: ApplyConfig is entered
RenderOk ==
    /\ pc = "Render"
    /\ config' = Render(newState)
    /\ pc' = "ApplyConfig"
    /\ step' = 1
    /\ callEntry' = [cfg |-> cfgFile, reloads |-> reloads]
    /\ UNCHANGED <<inputReceived, currentConfig, currentState, started, ready,
                   newState, retErr, tmpFile, cfgFile, masterPID, validated,
                   signalVars, envVars, recvVars, applyCalls, applyOks,
                   lastApply, appliesSinceTick>>
    /\ UNCHANGED supVars
    /\ UNCHANGED nonLoopVars

\* h.renderer.Render failed
RenderErr ==
    /\ pc = "Render" /\ failBudget > 0
    /\ failBudget' = failBudget - 1
    /\ pc' = "WaitAndRetry"
    /\ UNCHANGED <<inputReceived, currentConfig, currentState, started, ready,
                   newState, config, retErr, writerVars, signalVars, clock,
                   sent, recvVars, applyVars>>
    /\ UNCHANGED supVars
    /\ UNCHANGED nonLoopVars

(***************************************************************************)
(* ConfigWriter.ApplyConfig, called from the round.                        *)
(***************************************************************************)
\* (mutant) the reload signal is sent before the rename
SignalBeforeRename == <<"write", "validate", "signal", "rename">>

\* the order of ApplyConfig's steps
ApplySteps == <<"write", "validate", "rename", "signal">>

AtStep(name) == pc = "ApplyConfig" /\ ApplySteps[step] = name

LogEntry(err, cfgAfter, tmpAfter, reloadsAfter) ==
    [text |-> config, err |-> err, cfgBefore |-> callEntry.cfg,
     reloadsBefore |-> callEntry.reloads, cfgAfter |-> cfgAfter,
     tmpAfter |-> tmpAfter, reloadsAfter |-> reloadsAfter]

\* history: whether this call's temporary file has passed validation
ValidatedAfter(v) == IF step < Len(ApplySteps) THEN v ELSE FALSE

\* (mutant) Ready is closed after every successful apply
ReadyClosedOnEveryApply(wasReady, closes) == closes + 1

\* closes of h.Ready after a successful apply: the first one only
ReadyClosesAfterApply(wasReady, closes) ==
    IF ~wasReady THEN closes + 1 ELSE closes

\* a step succeeded: go to the next step, or return nil from the last one;
\* watch then closes Ready if it has not yet, records the state and loops
ApplyStepOk(cfgAfter, tmpAfter, reloadsAfter) ==
    IF step < Len(ApplySteps)
    THEN /\ step' = step + 1
         /\ UNCHANGED <<pc, inputReceived, currentState, ready, newState,
                        config, readyCloses, applyVars>>
    ELSE /\ step' = 0
         /\ lastApply' = LogEntry(NoErr, cfgAfter, tmpAfter, reloadsAfter)
         /\ applyCalls' = applyCalls + 1
         /\ applyOks' = applyOks + 1
         /\ appliesSinceTick' = appliesSinceTick + 1
         /\ callEntry' = NoCall
         /\ readyCloses' = ReadyClosesAfterApply(ready, readyCloses)
         /\ ready' = TRUE
         /\ currentState' = newState
         /\ newState' = ZeroState
         /\ config' = EmptyText
         /\ pc' = "Throttle"
         /\ inputReceived' = FALSE

\* (mutant) the state is recorded before the error of ApplyConfig is looked at
StateRecordedOnErr(cur, new) == new

\* currentState after a failed ApplyConfig: `continue` comes before
\* `currentState = newState`
StateAfterErr(cur, new) == cur

\* a step failed: ApplyConfig returns the error and watch calls waitAndRetry
ApplyStepErr(err, cfgAfter, tmpAfter, reloadsAfter) ==
    /\ failBudget > 0
    /\ currentState' = StateAfterErr(currentState, newState)
    /\ validated' = FALSE
    /\ failBudget' = failBudget - 1
    /\ step' = 0
    /\ lastApply' = LogEntry(err, cfgAfter, tmpAfter, reloadsAfter)
    /\ applyCalls' = applyCalls + 1
    /\ appliesSinceTick' = appliesSinceTick + 1
    /\ callEntry' = NoCall
    /\ pc' = "WaitAndRetry"
    /\ UNCHANGED <<inputReceived, ready, newState, config,
                   readyCloses, applyOks>>

\* os.WriteFile(tmpPath, config, 0600)
ApplyWriteOk ==
    /\ AtStep("write")
    /\ validated' = ValidatedAfter(validated)
    /\ tmpFile' = <<config>>
    /\ ApplyStepOk(cfgFile, tmpFile', reloads)
    /\ UNCHANGED <<currentConfig, started, retErr, cfgFile, masterPID, stop,
                   throttle, reloads, lastReload, envVars, recvVars>>
    /\ UNCHANGED supVars
    /\ UNCHANGED nonLoopVars

\* os.WriteFile failed: the temporary file is as it was, or cut short
ApplyWriteErr ==
    /\ AtStep("write")
    /\ tmpFile' \in {tmpFile, <<EmptyText>>}
    /\ ApplyStepErr(Err("write", ""), cfgFile, tmpFile', reloads)
    /\ UNCHANGED <<currentConfig, started, retErr, cfgFile, masterPID, stop,
                   throttle, reloads, lastReload, clock, sent, recvVars>>
    /\ UNCHANGED supVars
    /\ UNCHANGED nonLoopVars

\* haproxy -c -f tmpPath exited 0
ApplyValidateOk ==
    /\ AtStep("validate")
    /\ validated' = ValidatedAfter(TRUE)
    /\ ApplyStepOk(cfgFile, tmpFile, reloads)
    /\ UNCHANGED <<currentConfig, started, retErr, tmpFile, cfgFile,
                   masterPID, stop, throttle, reloads, lastReload, envVars,
                   recvVars>>
    /\ UNCHANGED supVars
    /\ UNCHANGED nonLoopVars

\* (mutant) the rejected temporary file is left behind
TmpLeftBehind(tmp) == tmp

\* the temporary file after a failed validation: os.Remove(tmpPath)
TmpAfterInvalid(tmp) == <<>>

\* haproxy -c -f tmpPath exited non-zero with some output
ApplyValidateErr ==
    /\ AtStep("validate")
    /\ tmpFile' = TmpAfterInvalid(tmpFile)
    /\ \E output \in {"[ALERT] parsing error"} :
         ApplyStepErr(Err("validate", output), cfgFile, tmpFile', reloads)
    /\ UNCHANGED <<currentConfig, started, retErr, cfgFile, masterPID, stop,
                   throttle, reloads, lastReload, clock, sent, recvVars>>
    /\ UNCHANGED supVars
    /\ UNCHANGED nonLoopVars

\* os.Rename(tmpPath, configPath)
ApplyRenameOk ==
    /\ AtStep("rename")
    /\ validated' = ValidatedAfter(validated)
    /\ tmpFile # <<>>
    /\ cfgFile' = tmpFile[1]
    /\ tmpFile' = <<>>
    /\ ApplyStepOk(cfgFile', tmpFile', reloads)
    /\ UNCHANGED <<currentConfig, started, retErr, masterPID, stop, throttle,
                   reloads, lastReload, envVars, recvVars>>
    /\ UNCHANGED supVars
    /\ UNCHANGED nonLoopVars

\* os.Rename failed: both files stay
ApplyRenameErr ==
    /\ AtStep("rename")
    /\ ApplyStepErr(Err("rename", ""), cfgFile, tmpFile, reloads)
    /\ UNCHANGED <<currentConfig, started, retErr, tmpFile, cfgFile,
                   masterPID, stop, throttle, reloads, lastReload, clock,
                   sent, recvVars>>
    /\ UNCHANGED supVars
    /\ UNCHANGED nonLoopVars

\* syscall.Kill(masterPID, SIGUSR2): the master reloads what is installed
ApplySignalOk ==
    /\ AtStep("signal")
    /\ validated' = ValidatedAfter(validated)
    /\ reloads' = reloads + 1
    /\ lastReload' = [pid |-> masterPID, installed |-> cfgFile,
                      text |-> config, validated |-> validated]
    /\ ApplyStepOk(cfgFile, tmpFile, reloads')
    /\ UNCHANGED <<currentConfig, started, retErr, tmpFile, cfgFile,
                   masterPID, stop, throttle, envVars, recvVars>>
    /\ UNCHANGED supVars
    /\ UNCHANGED nonLoopVars

\* syscall.Kill failed (no such process)
ApplySignalErr ==
    /\ AtStep("signal")
    /\ ApplyStepErr(Err("signal", ""), cfgFile, tmpFile, reloads)
    /\ UNCHANGED <<currentConfig, started, retErr, tmpFile, cfgFile,
                   masterPID, stop, throttle, reloads, lastReload, clock,
                   sent, recvVars>>
    /\ UNCHANGED supVars
    /\ UNCHANGED nonLoopVars

(***************************************************************************)
(* waitAndRetry.                                                           *)
(***************************************************************************)
\* whether the non-blocking send on the unbuffered retry channel is taken:
\* only if a receiver is blocked on it, and its only receiver is the select
\* of the Throttle loop, on the goroutine that is running waitAndRetry
RetrySendTaken == pc = "Throttle"

\* time.Sleep(retryBackoff) on the loop's own goroutine, then the send on
\* retry; the ticker has fired meanwhile.  When the send is taken,
\* `case <-retry` sets inputReceived
WaitAndRetry ==
    /\ pc = "WaitAndRetry"
    /\ clock' = (clock + retryBackoff) % stateApplyThrottle
    /\ sinceRecv' = Saturate(sinceRecv + retryBackoff)
    /\ throttle' = IF retryBackoff >= stateApplyThrottle THEN 1 ELSE throttle
    /\ pc' = "Throttle"
    /\ inputReceived' = RetrySendTaken
    /\ newState' = ZeroState
    /\ config' = EmptyText
    /\ UNCHANGED <<currentConfig, currentState, started, ready, retErr,
                   writerVars, stop, readyCloses, reloads, lastReload, sent,
                   failBudget, tickSeen, lastGap, tickBetween, allSame,
                   lastDelivered, applyVars>>
    /\ UNCHANGED supVars
    /\ UNCHANGED nonLoopVars

(***************************************************************************)
(* SPOEHandler.isAuthorized: the single-flight authorization cache, for    *)
(* one URI.  Times are in ms.                                              *)
(***************************************************************************)
Callers == 1..MaxCallers

\* time.Time{}: an instant far before any the responder runs at
ZeroTime == 0 - 1000 * cacheTTL

\* now.Sub(t)
Sub(t, u) == t - u

\* what authCache[uri] yields when the key is absent
NoEntry == [Value |-> FALSE, At |-> ZeroTime, C |-> "none", fetch |-> "none",
            createdAt |-> ZeroTime, doneAt |-> ZeroTime]

\* &cacheEntry{At: now, C: make(chan struct{})} and its fetch goroutine;
\* fetch, createdAt and doneAt are the goroutine's position and history
NewEntry(t) == [Value |-> FALSE, At |-> t, C |-> "open", fetch |-> "running",
                createdAt |-> t, doneAt |-> ZeroTime]

NoRes == [value |-> FALSE, err |-> "", at |-> ZeroTime]
TimeoutErr == "authz call failed: timeout after 1s"

InitAuth ==
    /\ heap = <<>>
    /\ authCache = 0
    /\ now = 0
    /\ callPc = [c \in Callers |-> "idle"]
    /\ waitOn = [c \in Callers |-> 0]
    /\ callStart = [c \in Callers |-> 0]
    /\ callRes = [c \in Callers |-> NoRes]
    /\ seen = [c \in Callers |-> NoEntry]
    /\ issued = [c \in Callers |-> FALSE]
    /\ overlap = [c \in Callers |-> {}]
    /\ failedSince = FALSE
    /\ afterFail = [c \in Callers |-> FALSE]
    /\ setVars = [c \in Callers |-> <<>>]

\* (mutant) every lookup creates an entry and fetches
FetchOnEveryLookup(ok, entry, t) == TRUE

\* if !ok || now.Sub(entry.At) > cacheTTL
NeedsFetch(ok, entry, t) == ~ok \/ Sub(t, entry.At) > cacheTTL

\* isAuthorized up to its select: the locked lookup, and on a miss the new
\* entry stored in authCache and the fetch goroutine launched.  The calls
\* are numbered in the order the handlers make them.
isAuthorized(c) ==
    /\ callPc[c] = "idle"
    /\ \A d \in Callers : d < c => callPc[d] # "idle"
    /\ LET ok == authCache # 0
           entry == IF ok THEN heap[authCache] ELSE NoEntry
           miss == NeedsFetch(ok, entry, now)
       IN  /\ seen' = [seen EXCEPT ![c] = entry]
           /\ issued' = [issued EXCEPT ![c] = miss]
           /\ heap' = IF miss THEN Append(heap, NewEntry(now)) ELSE heap
           /\ authCache' = IF miss THEN Len(heap) + 1 ELSE authCache
           /\ waitOn' = [waitOn EXCEPT ![c] = authCache']
    /\ callPc' = [callPc EXCEPT ![c] = "select"]
    /\ callStart' = [callStart EXCEPT ![c] = now]
    /\ overlap' = [overlap EXCEPT ![c] = {d \in Callers : callPc[d] = "select"}]
    /\ afterFail' = [afterFail EXCEPT ![c] = failedSince]
    /\ failedSince' = FALSE
    /\ UNCHANGED <<now, callRes, setVars>>
    /\ UNCHANGED nonAuthVars

\* (mutant) the entry is stamped again when its fetch succeeds
AtStampedOnCompletion(at, t) == t

\* entry.At after a successful fetch: the goroutine leaves it alone
AtAfterFetchOk(at, t) == at

\* the fetch goroutine of entry e: fetchAutz returned (auth, nil)
FetchOk(e, auth) ==
    /\ heap[e].fetch = "running"
    /\ heap' = [heap EXCEPT ![e] =
                  [Value |-> auth, At |-> AtAfterFetchOk(heap[e].At, now),
                   C |-> "closed", fetch |-> "ok",
                   createdAt |-> heap[e].createdAt, doneAt |-> now]]
    /\ UNCHANGED <<authCache, now, callPc, waitOn, callStart, callRes, seen,
                   issued, overlap, failedSince, afterFail, setVars>>
    /\ UNCHANGED nonAuthVars

\* (mutant) a failed fetch leaves the entry's stamp alone
AtKeptOnError(at) == at

\* entry.At after a failed fetch: entry.At = time.Time{}
AtAfterFetchErr(at) == ZeroTime

\* the fetch goroutine of entry e: fetchAutz returned an error
FetchErr(e) ==
    /\ heap[e].fetch = "running"
    /\ heap' = [heap EXCEPT ![e] =
                  [Value |-> FALSE, At |-> AtAfterFetchErr(heap[e].At),
                   C |-> "closed",
                   fetch |-> "err", createdAt |-> heap[e].createdAt,
                   doneAt |-> now]]
    /\ failedSince' = TRUE
    /\ UNCHANGED <<authCache, now, callPc, waitOn, callStart, callRes, seen,
                   issued, overlap, afterFail, setVars>>
    /\ UNCHANGED nonAuthVars

\* (mutant) the wait has no deadline
NoDeadline(start, t) == FALSE

\* time.After(authzTimeout) has fired for a wait begun at start
DeadlinePassed(start, t) == Sub(t, start) >= authzTimeout

\* the certificate of request c names a service (*connect.SpiffeIDService):
\* the requests alternate between a service's and an agent's certificate
CertIsService(c) == c % 2 = 1

\* Handler after isAuthorized returned res: on an error it logs and returns
\* with no variable set, else it sets auth and source_app
HandlerSetVars(c, res) ==
    IF res.err # "" THEN <<>>
    ELSE <<[auth |-> IF res.value THEN 1 ELSE 0,
            source_app |-> IF CertIsService(c) THEN "client" ELSE ""]>>

\* (mutant) the value is read from the entry authCache holds now
CachedNow(c) == authCache

\* the entry `return entry.Value` reads: the local `entry` of the call, the
\* one it found or created
OwnEntry(c) == waitOn[c]

\* case <-entry.C: return entry.Value, nil; Handler then sets the variables
SelectSignal(c) ==
    /\ callPc[c] = "select"
    /\ heap[waitOn[c]].C = "closed"
    /\ callRes' = [callRes EXCEPT ![c] =
                     [value |-> heap[OwnEntry(c)].Value, err |-> "",
                      at |-> now]]
    /\ setVars' = [setVars EXCEPT ![c] = HandlerSetVars(c, callRes'[c])]
    /\ callPc' = [callPc EXCEPT ![c] = "returned"]
    /\ UNCHANGED <<heap, authCache, now, waitOn, callStart, seen, issued,
                   overlap, failedSince, afterFail>>
    /\ UNCHANGED nonAuthVars

\* case <-time.After(authzTimeout): return false, error; Handler then logs
\* the error and returns
SelectTimeout(c) ==
    /\ callPc[c] = "select"
    /\ DeadlinePassed(callStart[c], now)
    /\ callRes' = [callRes EXCEPT ![c] =
                     [value |-> FALSE, err |-> TimeoutErr, at |-> now]]
    /\ setVars' = [setVars EXCEPT ![c] = HandlerSetVars(c, callRes'[c])]
    /\ callPc' = [callPc EXCEPT ![c] = "returned"]
    /\ UNCHANGED <<heap, authCache, now, waitOn, callStart, seen, issued,
                   overlap, failedSince, afterFail>>
    /\ UNCHANGED nonAuthVars

\* Handler returns before the lookup: no check-intentions message, no cert
\* argument, a cert that does not decode, or no parseable URI in it
HandlerReject(c) ==
    /\ callPc[c] = "idle"
    /\ \A d \in Callers : d < c => callPc[d] # "idle"
    /\ callPc' = [callPc EXCEPT ![c] = "rejected"]
    /\ UNCHANGED <<heap, authCache, now, waitOn, callStart, callRes, seen,
                   issued, overlap, failedSince, afterFail, setVars>>
    /\ UNCHANGED nonAuthVars

\* a call whose select has a ready case
CanReturn(c) ==
    /\ callPc[c] = "select"
    /\ heap[waitOn[c]].C = "closed" \/ DeadlinePassed(callStart[c], now)

\* AuthStep ms pass; a goroutine whose select has a ready case runs first
TimePasses ==
    /\ now + AuthStep <= MaxTime
    /\ \A c \in Callers : ~CanReturn(c)
    /\ now' = now + AuthStep
    /\ UNCHANGED <<heap, authCache, callPc, waitOn, callStart, callRes, seen,
                   issued, overlap, failedSince, afterFail, setVars>>
    /\ UNCHANGED nonAuthVars


(***************************************************************************)
(* haConfig.FilePath: the content-addressed certificate store.             *)
(***************************************************************************)
\* the contents stored: byte strings over the bytes 1 and 2
Blobs == {<<1>>, <<1, 2>>, <<2, 1>>}

RECURSIVE Sum256(_)
\* sha256.Sum256 and hex.EncodeToString: a digest that tells apart every two
\* byte strings (collision resistance), computed digit by digit
Sum256(content) ==
    IF content = <<>> THEN 0
    ELSE content[Len(content)]
         + 3 * Sum256(SubSeq(content, 1, Len(content) - 1))

\* path.Join(h.Base, hex digest)
StorePath(content) == <<"base", Sum256(content)>>

StorePaths == {StorePath(b) : b \in Blobs}

NoFile == <<0>>
NoPath == [path |-> "", err |-> ""]
PathOk(p) == [path |-> p, err |-> ""]
PathErr(e) == [path |-> "", err |-> e]

InitStore ==
    /\ files = [p \in StorePaths |-> NoFile]
    /\ fpPc = [c \in Callers |-> "idle"]
    /\ fpContent = [c \in Callers |-> <<>>]
    /\ fpRet = [c \in Callers |-> NoPath]
    /\ fpExisted = [c \in Callers |-> FALSE]
    /\ fpOpened = [c \in Callers |-> FALSE]
    /\ fsBudget = MaxFailures

StatNeverFound(fs, p) == FALSE

\* os.Stat(path) returned no error
StatFound(fs, p) == fs[p] # NoFile

\* FilePath up to os.Stat: the file is there, the path is returned
FilePathFound(c, b) ==
    /\ fpPc[c] = "idle"
    /\ \A d \in Callers : d < c => fpPc[d] # "idle"
    /\ StatFound(files, StorePath(b))
    /\ fpPc' = [fpPc EXCEPT ![c] = "returned"]
    /\ fpContent' = [fpContent EXCEPT ![c] = b]
    /\ fpRet' = [fpRet EXCEPT ![c] = PathOk(StorePath(b))]
    /\ fpExisted' = [fpExisted EXCEPT ![c] = files[StorePath(b)] # NoFile]
    /\ UNCHANGED <<files, fpOpened, fsBudget>>
    /\ UNCHANGED nonStoreVars

\* FilePath up to os.Stat: no such file, the call goes on to create it
FilePathMissing(c, b) ==
    /\ fpPc[c] = "idle"
    /\ \A d \in Callers : d < c => fpPc[d] # "idle"
    /\ ~StatFound(files, StorePath(b))
    /\ fpPc' = [fpPc EXCEPT ![c] = "open"]
    /\ fpContent' = [fpContent EXCEPT ![c] = b]
    /\ fpExisted' = [fpExisted EXCEPT ![c] = files[StorePath(b)] # NoFile]
    /\ UNCHANGED <<files, fpRet, fpOpened, fsBudget>>
    /\ UNCHANGED nonStoreVars

\* FilePath up to os.Stat: an error other than "not exist"
FilePathStatErr(c, b) ==
    /\ fpPc[c] = "idle"
    /\ \A d \in Callers : d < c => fpPc[d] # "idle"
    /\ fsBudget > 0
    /\ fsBudget' = fsBudget - 1
    /\ fpPc' = [fpPc EXCEPT ![c] = "returned"]
    /\ fpContent' = [fpContent EXCEPT ![c] = b]
    /\ fpRet' = [fpRet EXCEPT ![c] = PathErr("stat")]
    /\ fpExisted' = [fpExisted EXCEPT ![c] = files[StorePath(b)] # NoFile]
    /\ UNCHANGED <<files, fpOpened>>
    /\ UNCHANGED nonStoreVars

\* os.OpenFile with O_CREATE|O_TRUNC|O_WRONLY: the file is created, or the
\* file that is there is cut to length zero
OpenFileOk(c) ==
    /\ fpPc[c] = "open"
    /\ files' = [files EXCEPT ![StorePath(fpContent[c])] = <<>>]
    /\ fpOpened' = [fpOpened EXCEPT ![c] = TRUE]
    /\ fpPc' = [fpPc EXCEPT ![c] = "write"]
    /\ UNCHANGED <<fpContent, fpRet, fpExisted, fsBudget>>
    /\ UNCHANGED nonStoreVars

OpenFileErr(c) ==
    /\ fpPc[c] = "open"
    /\ fsBudget > 0
    /\ fsBudget' = fsBudget - 1
    /\ fpPc' = [fpPc EXCEPT ![c] = "returned"]
    /\ fpRet' = [fpRet EXCEPT ![c] = PathErr("open")]
    /\ UNCHANGED <<files, fpContent, fpExisted, fpOpened>>
    /\ UNCHANGED nonStoreVars

\* the file after the first k bytes of content went in at offset 0
Written(old, content, k) ==
    SubSeq(content, 1, k) \o SubSeq(old, k + 1, Len(old))

\* f.Write(content) wrote everything
WriteOk(c) ==
    /\ fpPc[c] = "write"
    /\ LET p == StorePath(fpContent[c])
       IN files' = [files EXCEPT
                       ![p] = Written(files[p], fpContent[c],
                                      Len(fpContent[c]))]
    /\ fpPc' = [fpPc EXCEPT ![c] = "returned"]
    /\ fpRet' = [fpRet EXCEPT ![c] = PathOk(StorePath(fpContent[c]))]
    /\ UNCHANGED <<fpContent, fpExisted, fpOpened, fsBudget>>
    /\ UNCHANGED nonStoreVars

\* f.Write(content) failed after k bytes
WriteErr(c, k) ==
    /\ fpPc[c] = "write"
    /\ fsBudget > 0
    /\ fsBudget' = fsBudget - 1
    /\ LET p == StorePath(fpContent[c])
       IN files' = [files EXCEPT
                       ![p] = Written(files[p], fpContent[c], k)]
    /\ fpPc' = [fpPc EXCEPT ![c] = "returned"]
    /\ fpRet' = [fpRet EXCEPT ![c] = PathErr("write")]
    /\ UNCHANGED <<fpContent, fpExisted, fpOpened>>
    /\ UNCHANGED nonStoreVars

StoreNext ==
    \/ \E c \in Callers : \E b \in Blobs : FilePathFound(c, b)
    \/ \E c \in Callers : \E b \in Blobs : FilePathMissing(c, b)
    \/ \E c \in Callers : \E b \in Blobs : FilePathStatErr(c, b)
    \/ \E c \in Callers : OpenFileOk(c)
    \/ \E c \in Callers : OpenFileErr(c)
    \/ \E c \in Callers : WriteOk(c)
    \/ \E c \in Callers : \E k \in 0..(Len(fpContent[c]) - 1) : WriteErr(c, k)


(***************************************************************************)
(* consul.Watcher: the data it keeps and genCfg.                           *)
(***************************************************************************)
\* api.ServiceEntry as far as genCfg reads it
Entry(addr, node, status, passing, warning) ==
    [Address |-> addr, NodeAddress |-> node, Port |-> 8080,
     Status |-> status, Passing |-> passing, Warning |-> warning]

EPass == Entry("10.0.0.1", "10.1.0.1", "passing", 2, 1)
EWarn == Entry("", "10.1.0.2", "warning", 2, 1)
ECrit == Entry("10.0.0.3", "10.1.0.3", "critical", 2, 1)
EZero == Entry("10.0.0.4", "10.1.0.4", "passing", 0, 1)
EMaint == Entry("10.0.0.5", "10.1.0.5", "maintenance", 2, 1)

\* endpoint lists an upstream can hold
NodeLists == {<<>>, <<EWarn, ECrit, EPass>>, <<EZero, EMaint, EWarn>>}

\* the endpoint lists a poll of an upstream returns
PolledLists == {<<EWarn, ECrit, EPass>>}

\* an upstream declared by the sidecar definition; poll_interval "" is
\* absent
Decl(type, dest, interval) ==
    [DestinationType |-> type, DestinationName |-> dest,
     poll_interval |-> interval]

\* fmt.Sprintf("%s_%s", up.DestinationType, up.DestinationName)
UpstreamName(up) ==
    IF up.DestinationType = "prepared_query"
    THEN (IF up.DestinationName = "p" THEN "prepared_query_p"
          ELSE "prepared_query_q")
    ELSE "service_a"

\* the names in the order of Go's < on strings
NamesInOrder == <<"prepared_query_p", "prepared_query_q", "service_a">>
UpstreamNames == {NamesInOrder[i] : i \in 1..Len(NamesInOrder)}
NameRank(name) == CHOOSE i \in 1..Len(NamesInOrder) : NamesInOrder[i] = name

\* the sidecar definitions watchService can be answered with: the upstreams
\* each declares
SidecarDefs ==
    << <<Decl("service", "a", "")>>,
       <<Decl("service", "a", ""), Decl("prepared_query", "p", "10s")>>,
       <<Decl("prepared_query", "q", "bogus")>> >>

\* srv.Proxy.Config without keys
NoKeys == [k \in {} |-> ""]

\* srv.Port, srv.Proxy.Config and srv.Proxy.Upstreams of the sidecar
\* definitions: those of SidecarDefs, then three that differ in the
\* downstream binding
SidecarBindings ==
    << [Port |-> 21000, Config |-> NoKeys, Upstreams |-> SidecarDefs[1]],
       [Port |-> 21000, Config |-> NoKeys, Upstreams |-> SidecarDefs[2]],
       [Port |-> 21000, Config |-> NoKeys, Upstreams |-> SidecarDefs[3]],
       [Port |-> 21001, Upstreams |-> <<>>,
        Config |-> [k \in {"protocol", "local_service_address",
                           "local_service_port", "enable_forwardfor",
                           "appname_header"} |->
                       CASE k = "protocol" -> "tcp"
                         [] k = "local_service_address" -> "10.1.1.1"
                         [] k = "local_service_port" -> 9000
                         [] k = "enable_forwardfor" -> TRUE
                         [] k = "appname_header" -> "X-App"]],
       [Port |-> 21002, Upstreams |-> SidecarDefs[1],
        Config |-> [k \in {"local_service_address"} |-> "10.2.2.2"]],
       [Port |-> 21003, Config |-> NoKeys, Upstreams |-> <<>>] >>

\* srv.Proxy.Upstreams of definition d
DeclaredUpstreams(d) == SidecarBindings[d].Upstreams

\* a run in which the upstreams change, and one in which the binding and
\* the CA roots change and the registrations may supply no target port
MeshAnswers == [defs |-> 1..Len(SidecarDefs), roots |-> {<<"ca1">>},
                ports |-> {8080}, late |-> FALSE, stamped |-> FALSE]
BindingAnswers ==
    [defs |-> (Len(SidecarDefs) + 1)..Len(SidecarBindings),
     roots |-> {<<"ca1">>, <<"ca2", "ca1">>}, ports |-> {0, 8080},
     late |-> FALSE, stamped |-> FALSE]

\* the same answers as MeshAnswers from a control plane whose calls can
\* also fail after a subscriber's first response
FlakyAnswers == [MeshAnswers EXCEPT !.late = TRUE]

\* the same answers as MeshAnswers in a run that keeps the history of the
\* writes
StampedAnswers == [MeshAnswers EXCEPT !.stamped = TRUE]

\* the zero value of w.downstream
ZeroDownstream ==
    [LocalBindAddress |-> "", LocalBindPort |-> 0, Protocol |-> "",
     TargetAddress |-> "", TargetPort |-> 0, EnableForwardFor |-> FALSE,
     AppNameHeaderName |-> ""]

\* Run: the target port of the sidecar registration, else the port of the
\* application registration, else none
WithStartPort(ds, port) == [ds EXCEPT !.TargetPort = port]

\* handleProxyChange: the bind address and port are written first
WithBind(ds, srv) ==
    [ds EXCEPT !.LocalBindAddress = "0.0.0.0", !.LocalBindPort = srv.Port]

\* c[key] when the definition has the key, else the value kept
ConfigOr(c, key, kept) == IF key \in DOMAIN c THEN c[key] ELSE kept

\* handleProxyChange: the target address is reset, then the keys the
\* definition has overwrite their fields
WithConfig(ds, srv) ==
    [ds EXCEPT
        !.TargetAddress = ConfigOr(srv.Config, "local_service_address",
                                   "127.0.0.1"),
        !.Protocol = ConfigOr(srv.Config, "protocol", @),
        !.TargetPort = ConfigOr(srv.Config, "local_service_port", @),
        !.EnableForwardFor = ConfigOr(srv.Config, "enable_forwardfor", @),
        !.AppNameHeaderName = ConfigOr(srv.Config, "appname_header", @)]

\* a nil slice
NilSlice == [arr |-> 0, len |-> 0]

\* the elements of a slice
Elems(arrays, s) == [i \in 1..s.len |-> arrays[s.arr][i]]

\* append(s, x): in place while the backing array has room, else into a
\* new array of twice the capacity
appendCA(m, x) ==
    IF m.s.arr # 0 /\ m.s.len < Len(m.heap[m.s.arr])
    THEN [heap |-> [m.heap EXCEPT ![m.s.arr][m.s.len + 1] = x],
          s |-> [m.s EXCEPT !.len = @ + 1]]
    ELSE LET newcap == IF m.s.len = 0 THEN 1 ELSE 2 * m.s.len
             arr == [i \in 1..newcap |->
                        IF i <= m.s.len THEN m.heap[m.s.arr][i]
                        ELSE IF i = m.s.len + 1 THEN x ELSE ""]
         IN [heap |-> Append(m.heap, arr),
             s |-> [arr |-> Len(m.heap) + 1, len |-> m.s.len + 1]]

RECURSIVE appendRoots(_, _)
\* watchCA: the loop over caList.Roots
appendRoots(m, roots) ==
    IF roots = <<>> THEN m
    ELSE appendRoots(appendCA(m, Head(roots)), Tail(roots))

\* watchCA: w.certCAs = w.certCAs[:0], then the roots are appended
refill(arrays, s, roots) ==
    appendRoots([heap |-> arrays, s |-> [s EXCEPT !.len = 0]], roots)

\* time.ParseDuration succeeds
ParsesAsDuration(p) == p # "bogus"

AnyStatusWeight(s) == s.Passing

\* api.HealthPassing / api.HealthWarning: the weight genCfg gives an
\* endpoint, 0 when it is skipped
NodeWeight(s) ==
    IF s.Status = "passing" THEN s.Passing
    ELSE IF s.Status = "warning" THEN s.Warning
    ELSE 0

UpstreamNode(s) ==
    [Host |-> IF s.Address = "" THEN s.NodeAddress ELSE s.Address,
     Port |-> s.Port,
     Weight |-> NodeWeight(s)]

RECURSIVE genNodes(_)
\* genCfg: the loop over up.Nodes
genNodes(nodes) ==
    IF nodes = <<>> THEN <<>>
    ELSE IF NodeWeight(Head(nodes)) = 0 THEN genNodes(Tail(nodes))
    ELSE <<UpstreamNode(Head(nodes))>> \o genNodes(Tail(nodes))

RECURSIVE SortedByName(_, _, _)
\* sort.Slice(config.Upstreams, by Name) over the records w.upstreams holds
SortedByName(names, m, us) ==
    IF names = {} THEN <<>>
    ELSE LET first == CHOOSE n \in names :
                          \A o \in names : NameRank(n) <= NameRank(o)
         IN <<[Name |-> us[m[first]].Name,
               Nodes |-> genNodes(us[m[first]].Nodes)]>>
            \o SortedByName(names \ {first}, m, us)

\* Watcher.genCfg, under w.lock
genCfg(m, us) ==
    LET names == {n \in UpstreamNames : m[n] # 0}
    IN [Upstreams |-> SortedByName(names, m, us)]

NoSnap == [Upstreams |-> <<>>]

\* genCfg: the fields of config.Downstream; CAs is the slice w.certCAs
\* itself
genDownstream(ds, cas, def, running) ==
    [Downstream |-> ds, CAs |-> cas, def |-> def, mid |-> running]

NoSnapDown == genDownstream(ZeroDownstream, NilSlice, 0, FALSE)
NoReceived == [CAs |-> NilSlice, was |-> <<>>]

(***************************************************************************)
(* consul.Watcher: Run, the subscribers and the emitter.                   *)
(***************************************************************************)
Subs == {"ca", "leaf", "svc"}

\* `var lastIndex uint64`, `hash := ""`, `index := uint64(0)`: the token
\* before the first call
NewPoller == [token |-> 0, sleep |-> 0]

\* the token after a response: meta.LastIndex, meta.LastContentHash
Polled(p) == [p EXCEPT !.token = 1]

\* the call failed: time.Sleep(errorWaitTime)
Failed(p) == [p EXCEPT !.sleep = errorWaitTime]

\* (mutant) the loop goes round with the token of the last response
ResumeWithToken(p) == [p EXCEPT !.sleep = 0]

\* after the sleep: `lastIndex = 0`, `hash = ""`, `index = 0`, `continue`
Resume(p) == [token |-> 0, sleep |-> 0]

\* startUpstreamPreparedQuery passes no token: its goroutine compares the
\* endpoints with the last ones it saw
QueryResume(p) == [p EXCEPT !.sleep = 0]

\* the upstreams polled with a token: those of startUpstreamService
Indexed(name) == name = "service_a"

\* &upstream{Name: name} and the locals of the goroutine polling it
NewUpstream(name, startup) ==
    [Name |-> name, startup |-> startup, first |-> TRUE, done |-> FALSE,
     pc |-> "check", Nodes |-> <<>>]

\* an entry of the map Agent().Services() returns: its key and the fields
\* findSidecarProxy reads
Registration(id, service, kind, dest) ==
    [ID |-> id, Service |-> service, Kind |-> kind, Dest |-> dest]

\* the registrations an agent can hold for the service "web": its sidecar
\* under the conventional name, a sidecar under another name, a plain
\* service that has the conventional name, the application itself and the
\* sidecar of another service
Registrations ==
    {Registration("web-sidecar-proxy", "web-sidecar-proxy",
                  "connect-proxy", "web"),
     Registration("proxy-1", "web-proxy", "connect-proxy", "web"),
     Registration("legacy", "web-sidecar-proxy", "", ""),
     Registration("web", "web", "", ""),
     Registration("db-proxy", "db-sidecar-proxy", "connect-proxy", "db")}

\* w.service
WatchedService == "web"

\* the locals of Run before its discovery loop
NewLookup ==
    [i |-> 0, retryDelay |-> 1000, slept |-> 0, proxyID |-> "", err |-> FALSE]

\* the binding and the CA list before Run, in a run with the given answers
InitBind(answers) ==
    /\ offered = answers
    /\ downstream = ZeroDownstream
    /\ startPort = 0
    /\ caHeap = <<>>
    /\ certCAs = NilSlice
    /\ snapDown = NoSnapDown
    /\ received = NoReceived

\* the tasks of the watcher before Run, with the changes the control plane
\* has in store
InitSubscribers(budget) ==
    /\ wgReady = 0
    /\ update = 0
    /\ upstreams = [n \in UpstreamNames |-> 0]
    /\ ups = <<>>
    /\ subPc = [t \in Subs |-> "off"]
    /\ subFirst = [t \in Subs |-> TRUE]
    /\ svcDef = 0
    /\ reflects = "none"
    /\ wBudget = budget
    /\ snap = NoSnap
    /\ poller = [t \in Subs |-> NewPoller]
    /\ upPoller = [i \in 1..MaxUpstreams |-> NewPoller]

\* Run after its discovery loop has found the sidecar at the first attempt
InitTasks(budget) ==
    /\ runPc = "lookup"
    /\ services = {r \in Registrations : r.Dest = "" \/ r.ID = r.Service}
    /\ lookup = [NewLookup EXCEPT !.proxyID = "web-sidecar-proxy"]
    /\ InitSubscribers(budget)

InitWatcher ==
    /\ InitBind(MeshAnswers)
    /\ InitTasks(MaxChanges)

\* Run once findSidecarProxy has found the sidecar: w.ready.Add(3) and the
\* three subscribers are started
RunFound ==
    /\ runPc = "lookup"
    /\ runPc' = "wait"
    /\ wgReady' = 3
    /\ subPc' = [t \in Subs |-> "poll"]
    /\ \E port \in offered.ports :
           /\ downstream' = WithStartPort(downstream, port)
           /\ startPort' = port
    /\ UNCHANGED <<update, upstreams, ups, subFirst, reflects, svcDef,
                   wBudget, snap>>
    /\ UNCHANGED <<offered, caHeap, certCAs, snapDown, received>>
    /\ UNCHANGED outsideWatcher

SignalLost(u) == u

\* notifyChanged: a non-blocking send on w.update, dropped when one signal
\* is pending already
AfterNotify(u) == 1

\* a response that reports a change: every one to a call without a token,
\* and later ones while the control plane has changes in store
CanChange(fresh) == fresh \/ wBudget > 0
BudgetAfter(fresh) == IF fresh THEN wBudget ELSE wBudget - 1

\* the call of subscriber t carries no token
Fresh(t) == poller[t].token = 0

\* subscriber t is at its call, not in a sleep
Calling(t) == poller[t].sleep = 0

\* upstream goroutine i is at its call, not in a sleep
UpCalling(i) == upPoller[i].sleep = 0

\* history: the version of field f in the counts vs (0: never written)
Version(vs, f) == IF f \in DOMAIN vs THEN vs[f] ELSE 0

\* history: the counts after one more write to each field of fs
Bumped(vs, fs) ==
    [f \in (DOMAIN vs) \cup fs |->
        IF f \in fs THEN Version(vs, f) + 1 ELSE Version(vs, f)]

\* history: a handler has written the fields fs
Wrote(o, fs) ==
    IF offered.stamped THEN [o EXCEPT !.ver = Bumped(@, fs)] ELSE o

\* history: genCfg has read the fields
Built(o) == IF offered.stamped THEN [o EXCEPT !.built = o.ver] ELSE o

\* (mutant) the snapshot sent is the one sent before the last
Redelivered(o) == o.prev

\* Run: `w.C <- w.genCfg()`: the snapshot sent is the one genCfg has just
\* returned
Delivered(o) == o.built

\* history: Run has sent a snapshot
Sent(o) ==
    IF offered.stamped
    THEN [o EXCEPT !.prev = o.last, !.last = Delivered(o),
                   !.sent = IF @ < 2 THEN @ + 1 ELSE @]
    ELSE o

\* watchCA, watchLeaf: a successful response with a new index; the shared
\* state is written under w.lock
CertResp(t) ==
    /\ t \in {"ca", "leaf"}
    /\ subPc[t] = "poll"
    /\ Calling(t)
    /\ CanChange(Fresh(t))
    /\ wBudget' = BudgetAfter(Fresh(t))
    /\ poller' = [poller EXCEPT ![t] = Polled(@)]
    /\ UNCHANGED upPoller
    /\ reflects' = "written"
    /\ subPc' = [subPc EXCEPT ![t] = "notify"]
    /\ IF t = "ca"
       THEN \E roots \in offered.roots :
                LET m == refill(caHeap, certCAs, roots)
                IN caHeap' = m.heap /\ certCAs' = m.s
       ELSE UNCHANGED <<caHeap, certCAs>>
    /\ order' = Wrote(order, {t})
    /\ UNCHANGED <<runPc, wgReady, update, upstreams, ups, subFirst, svcDef, snap>>
    /\ UNCHANGED <<offered, downstream, startPort, snapDown, received>>
    /\ UNCHANGED <<loopVars, besideOrder, discVars>>

\* the calls the control plane can fail in this run: those before a task's
\* first response, and the later ones if offered.late
CanFail(first) == (first \/ offered.late) /\ wBudget > 0

\* watchCA, watchLeaf, watchService: the call returns an error; the error
\* is logged and the subscriber sleeps
SubErr(t) ==
    /\ subPc[t] = "poll"
    /\ Calling(t)
    /\ CanFail(subFirst[t])
    /\ wBudget' = wBudget - 1
    /\ poller' = [poller EXCEPT ![t] = Failed(@)]
    /\ UNCHANGED upPoller
    /\ UNCHANGED <<runPc, wgReady, update, upstreams, ups, subPc, subFirst,
                   reflects, svcDef, snap>>
    /\ UNCHANGED <<loopVars, otherVars, bindVars, discVars>>

\* watchCA, watchLeaf, watchService: the sleep is over; the token is reset
\* and the loop goes round
SubWake(t) ==
    /\ subPc[t] = "poll"
    /\ ~Calling(t)
    /\ poller' = [poller EXCEPT ![t] = Resume(@)]
    /\ UNCHANGED upPoller
    /\ UNCHANGED <<runPc, wgReady, update, upstreams, ups, subPc, subFirst,
                   reflects, svcDef, wBudget, snap>>
    /\ UNCHANGED <<loopVars, otherVars, bindVars, discVars>>

\* watchCA, watchLeaf: notifyChanged, then w.ready.Done() the first time
CertNotify(t) ==
    /\ t \in {"ca", "leaf"}
    /\ subPc[t] = "notify"
    /\ update' = AfterNotify(update)
    /\ wgReady' = IF subFirst[t] THEN wgReady - 1 ELSE wgReady
    /\ subFirst' = [subFirst EXCEPT ![t] = FALSE]
    /\ subPc' = [subPc EXCEPT ![t] = "poll"]
    /\ UNCHANGED <<runPc, upstreams, ups, reflects, svcDef, wBudget, snap>>
    /\ UNCHANGED <<loopVars, nonWatcherVars>>

NoAddForUpstream(startup) == 0

\* startUpstreamService, startUpstreamPreparedQuery: `if startup {
\* w.ready.Add(1) }`
AddForStartup(startup) == IF startup THEN 1 ELSE 0

\* startUpstreamService: the record is stored and its goroutine started
startUpstreamService(startup, up, name, st) ==
    [ready |-> st.ready + AddForStartup(startup),
     ups |-> Append(st.ups, NewUpstream(name, startup)),
     upstreams |-> [st.upstreams EXCEPT ![name] = Len(st.ups) + 1]]

\* startUpstreamPreparedQuery: the same, unless poll_interval is there and
\* does not parse: then it returns after w.ready.Add(1)
startUpstreamPreparedQuery(startup, up, name, st) ==
    IF up.poll_interval # "" /\ ~ParsesAsDuration(up.poll_interval)
    THEN [st EXCEPT !.ready = @ + AddForStartup(startup)]
    ELSE [ready |-> st.ready + AddForStartup(startup),
          ups |-> Append(st.ups, NewUpstream(name, startup)),
          upstreams |-> [st.upstreams EXCEPT ![name] = Len(st.ups) + 1]]

RECURSIVE startOrUpdate(_, _, _)
\* handleProxyChange: the loop over srv.Proxy.Upstreams
startOrUpdate(first, decls, st) ==
    IF decls = <<>> THEN st
    ELSE LET up == Head(decls)
             name == UpstreamName(up)
             next ==
                 IF st.upstreams[name] # 0 THEN st
                 ELSE IF up.DestinationType = "prepared_query"
                 THEN startUpstreamPreparedQuery(first, up, name, st)
                 ELSE startUpstreamService(first, up, name, st)
         IN startOrUpdate(first, Tail(decls), next)

\* handleProxyChange: removeUpstream for every name the definition dropped
removeUpstreams(keep, st) ==
    [st EXCEPT
        !.ups = [i \in 1..Len(st.ups) |->
                    IF /\ st.upstreams[st.ups[i].Name] = i
                       /\ st.ups[i].Name \notin keep
                    THEN [st.ups[i] EXCEPT !.done = TRUE]
                    ELSE st.ups[i]],
        !.upstreams = [n \in UpstreamNames |->
                          IF n \in keep THEN st.upstreams[n] ELSE 0]]

\* Watcher.handleProxyChange
handleProxyChange(first, srv, st) ==
    LET keep == {UpstreamName(srv[i]) : i \in 1..Len(srv)}
        kept == removeUpstreams(keep, startOrUpdate(first, srv, st))
    IN [kept EXCEPT !.ready = IF first THEN @ - 1 ELSE @]

\* watchService: a successful response with a new content hash; the handler
\* runs and writes the bind address and port, without taking w.lock
SvcResp(d) ==
    /\ subPc["svc"] = "poll"
    /\ Calling("svc")
    /\ d \in offered.defs
    /\ d # svcDef \/ Fresh("svc")
    /\ CanChange(Fresh("svc"))
    /\ Len(handleProxyChange(subFirst["svc"], DeclaredUpstreams(d),
                             [ready |-> wgReady, ups |-> ups,
                              upstreams |-> upstreams]).ups) <= MaxUpstreams
    /\ downstream' = WithBind(downstream, SidecarBindings[d])
    /\ svcDef' = d
    /\ wBudget' = BudgetAfter(Fresh("svc"))
    /\ poller' = [poller EXCEPT !["svc"] = Polled(@)]
    /\ UNCHANGED upPoller
    /\ reflects' = "written"
    /\ subPc' = [subPc EXCEPT !["svc"] = "handler"]
    /\ order' = Wrote(order, {"downstream"})
    /\ UNCHANGED <<runPc, wgReady, update, upstreams, ups, subFirst, snap>>
    /\ UNCHANGED <<offered, startPort, caHeap, certCAs, snapDown, received>>
    /\ UNCHANGED <<loopVars, besideOrder, discVars>>

\* watchService: the rest of the handler: the other fields of w.downstream,
\* still without w.lock, then the upstreams
SvcHandle ==
    /\ subPc["svc"] = "handler"
    /\ downstream' = WithConfig(downstream, SidecarBindings[svcDef])
    /\ LET st == handleProxyChange(subFirst["svc"], DeclaredUpstreams(svcDef),
                     [ready |-> wgReady, ups |-> ups,
                      upstreams |-> upstreams])
       IN /\ wgReady' = st.ready
          /\ ups' = st.ups
          /\ upstreams' = st.upstreams
          /\ order' = Wrote(order,
                         {"downstream"}
                         \cup {n \in UpstreamNames :
                                  st.upstreams[n] # upstreams[n]})
    /\ reflects' = "written"
    /\ subPc' = [subPc EXCEPT !["svc"] = "notify"]
    /\ UNCHANGED <<runPc, update, subFirst, svcDef, wBudget, snap>>
    /\ UNCHANGED <<offered, startPort, caHeap, certCAs, snapDown, received>>
    /\ UNCHANGED <<loopVars, besideOrder, pollVars, discVars>>

\* watchService: notifyChanged after the handler, then first = false
SvcNotify ==
    /\ subPc["svc"] = "notify"
    /\ update' = AfterNotify(update)
    /\ subFirst' = [subFirst EXCEPT !["svc"] = FALSE]
    /\ subPc' = [subPc EXCEPT !["svc"] = "poll"]
    /\ UNCHANGED <<runPc, wgReady, upstreams, ups, reflects, svcDef,
                   wBudget, snap>>
    /\ UNCHANGED <<loopVars, nonWatcherVars>>

\* the upstream goroutine: `if u.done { return }` at the top of its loop
UpCheck(i) ==
    /\ ups[i].pc = "check"
    /\ ups' = [ups EXCEPT ![i].pc = IF ups[i].done THEN "exited" ELSE "poll"]
    /\ UNCHANGED <<runPc, wgReady, update, upstreams, subPc, subFirst,
                   reflects, svcDef, wBudget,
                   snap>>
    /\ UNCHANGED <<loopVars, nonWatcherVars>>

\* (mutant) the goroutine writes to the record w.upstreams has under its
\* name
RecordByName(us, m, i) == IF m[us[i].Name] # 0 THEN m[us[i].Name] ELSE i

\* the record goroutine i writes to: u, the one it was started with
OwnRecord(us, m, i) == i

\* a call of goroutine i after a failed one: its index is 0, so whatever
\* the response holds is taken as a change
Refetch(i) ==
    ~ups[i].first /\ Indexed(ups[i].Name) /\ upPoller[i].token = 0

\* the upstream goroutine: a successful response with changed endpoints;
\* u.Nodes is written under w.lock
UpResp(i, nodes) ==
    /\ ups[i].pc = "poll"
    /\ UpCalling(i)
    /\ nodes # ups[i].Nodes \/ Refetch(i)
    /\ CanChange(ups[i].first \/ Refetch(i))
    /\ wBudget' = BudgetAfter(ups[i].first \/ Refetch(i))
    /\ upPoller' = [upPoller EXCEPT ![i] = IF Indexed(ups[i].Name)
                                            THEN Polled(@) ELSE @]
    /\ UNCHANGED poller
    /\ ups' = [[ups EXCEPT ![OwnRecord(ups, upstreams, i)].Nodes = nodes]
                   EXCEPT ![i].pc = "notify"]
    /\ reflects' = "written"
    /\ order' = Wrote(order,
                        IF upstreams[ups[i].Name] = OwnRecord(ups, upstreams, i)
                        THEN {ups[i].Name} ELSE {})
    /\ UNCHANGED <<runPc, wgReady, update, upstreams, subPc, subFirst,
                   svcDef, snap>>
    /\ UNCHANGED <<loopVars, besideOrder, bindVars, discVars>>

\* the upstream goroutine: a later response without a change (the long
\* poll ran out, or the prepared query returned the same endpoints)
UpUnchanged(i) ==
    /\ ups[i].pc = "poll"
    /\ UpCalling(i)
    /\ ~ups[i].first
    /\ ~Refetch(i)
    /\ ups' = [ups EXCEPT ![i].pc = "check"]
    /\ UNCHANGED <<runPc, wgReady, update, upstreams, subPc, subFirst,
                   reflects, svcDef, wBudget,
                   snap>>
    /\ UNCHANGED <<loopVars, nonWatcherVars>>

\* the upstream goroutine: the call returns an error; the error is logged
\* and the goroutine sleeps
UpErr(i) ==
    /\ ups[i].pc = "poll"
    /\ UpCalling(i)
    /\ CanFail(ups[i].first)
    /\ wBudget' = wBudget - 1
    /\ upPoller' = [upPoller EXCEPT ![i] = Failed(@)]
    /\ UNCHANGED poller
    /\ UNCHANGED <<runPc, wgReady, update, upstreams, ups, subPc, subFirst,
                   reflects, svcDef, snap>>
    /\ UNCHANGED <<loopVars, otherVars, bindVars, discVars>>

\* the upstream goroutine: the sleep is over; `index = 0` where there is an
\* index, and `continue` to the top of the loop
UpWake(i) ==
    /\ ups[i].pc = "poll"
    /\ ~UpCalling(i)
    /\ upPoller' = [upPoller EXCEPT ![i] = IF Indexed(ups[i].Name)
                                            THEN Resume(@)
                                            ELSE QueryResume(@)]
    /\ UNCHANGED poller
    /\ ups' = [ups EXCEPT ![i].pc = "check"]
    /\ UNCHANGED <<runPc, wgReady, update, upstreams, subPc, subFirst,
                   reflects, svcDef, wBudget, snap>>
    /\ UNCHANGED <<loopVars, otherVars, bindVars, discVars>>

\* the upstream goroutine: notifyChanged, then `if startup && first {
\* w.ready.Done() }` and first = false
UpNotify(i) ==
    /\ ups[i].pc = "notify"
    /\ update' = AfterNotify(update)
    /\ wgReady' = IF ups[i].startup /\ ups[i].first THEN wgReady - 1
                  ELSE wgReady
    /\ ups' = [ups EXCEPT ![i].first = FALSE, ![i].pc = "check"]
    /\ UNCHANGED <<runPc, upstreams, subPc, subFirst, reflects, svcDef,
                   wBudget, snap>>
    /\ UNCHANGED <<loopVars, nonWatcherVars>>

\* history: a write that was at stage `from` is now at stage `to`
Advanced(stage, from, to) == IF stage = from THEN to ELSE stage

\* Run: w.ready.Wait() returns
RunWait ==
    /\ runPc = "wait"
    /\ wgReady = 0
    /\ runPc' = "range"
    /\ UNCHANGED <<wgReady, update, upstreams, ups, subPc, subFirst,
                   reflects, svcDef, wBudget,
                   snap>>
    /\ UNCHANGED <<loopVars, nonWatcherVars>>

\* Run: `for range w.update` receives a signal
RunRecv ==
    /\ runPc = "range"
    /\ update = 1
    /\ update' = 0
    /\ runPc' = "gen"
    /\ UNCHANGED <<wgReady, upstreams, ups, subPc, subFirst, reflects,
                   svcDef, wBudget, snap>>
    /\ UNCHANGED <<loopVars, nonWatcherVars>>

\* Run: w.genCfg()
RunGen ==
    /\ runPc = "gen"
    /\ snap' = genCfg(upstreams, ups)
    /\ snapDown' = genDownstream(downstream, certCAs, svcDef,
                                 subPc["svc"] = "handler")
    /\ reflects' = Advanced(reflects, "written", "built")
    /\ order' = Built(order)
    /\ runPc' = "send"
    /\ UNCHANGED <<wgReady, update, upstreams, ups, subPc, subFirst, svcDef,
                   wBudget>>
    /\ UNCHANGED <<offered, downstream, startPort, caHeap, certCAs, received>>
    /\ UNCHANGED <<loopVars, besideOrder, pollVars, discVars>>

\* Run: `w.C <- snapshot` meets the consumer's receive
RunSend ==
    /\ runPc = "send"
    /\ reflects' = Advanced(reflects, "built", "sent")
    /\ snap' = NoSnap
    /\ received' = [CAs |-> snapDown.CAs, was |-> Elems(caHeap, snapDown.CAs)]
    /\ snapDown' = NoSnapDown
    /\ order' = Sent(order)
    /\ runPc' = "range"
    /\ UNCHANGED <<wgReady, update, upstreams, ups, subPc, subFirst, svcDef,
                   wBudget>>
    /\ UNCHANGED <<offered, downstream, startPort, caHeap, certCAs>>
    /\ UNCHANGED <<loopVars, besideOrder, pollVars, discVars>>

\* the upstream records w.upstreams can hold when genCfg is called: up to
\* MaxUpstreams names, stored in any order, with any endpoints
UpstreamRecords ==
    UNION {{us \in [1..n -> [Name : UpstreamNames, startup : {FALSE},
                             first : {FALSE}, done : {FALSE},
                             pc : {"poll"}, Nodes : NodeLists]] :
               \A i, j \in 1..n : i # j => us[i].Name # us[j].Name} :
           n \in 0..MaxUpstreams}

\* Run at the call of genCfg, past the barrier, for each such content
InitGenCfg ==
    /\ InitLoop /\ InitAuth /\ InitStore /\ InitFn /\ InitSide
    /\ runPc = "gen"
    /\ wgReady = 0
    /\ update = 0
    /\ ups \in UpstreamRecords
    /\ upstreams = [n \in UpstreamNames |->
                       IF \E i \in 1..Len(ups) : ups[i].Name = n
                       THEN CHOOSE i \in 1..Len(ups) : ups[i].Name = n
                       ELSE 0]
    /\ subPc = [t \in Subs |-> "poll"]
    /\ subFirst = [t \in Subs |-> FALSE]
    /\ svcDef = 1
    /\ reflects = "written"
    /\ wBudget = 0
    /\ snap = NoSnap
    /\ poller = [t \in Subs |-> Polled(NewPoller)]
    /\ services = {r \in Registrations : r.Dest = "" \/ r.ID = r.Service}
    /\ lookup = [NewLookup EXCEPT !.proxyID = "web-sidecar-proxy"]
    /\ upPoller = [i \in 1..MaxUpstreams |->
                       IF i <= Len(ups) /\ Indexed(ups[i].Name)
                       THEN Polled(NewPoller) ELSE NewPoller]
    /\ offered = MeshAnswers
    /\ startPort = 8080
    /\ downstream = WithConfig(WithBind(WithStartPort(ZeroDownstream, 8080),
                                        SidecarBindings[1]),
                               SidecarBindings[1])
    /\ LET m == refill(<<>>, NilSlice, <<"ca1">>)
       IN caHeap = m.heap /\ certCAs = m.s
    /\ snapDown = NoSnapDown
    /\ received = NoReceived

\* the steps of one subscriber that do not depend on the control plane
\* failing
SubStep(t) ==
    \/ CertResp(t) \/ CertNotify(t) \/ SubWake(t)
    \/ t = "svc" /\ ((\E d \in 1..Len(SidecarBindings) : SvcResp(d))
                     \/ SvcHandle \/ SvcNotify)

UpStep(i) ==
    \/ UpCheck(i) \/ UpNotify(i) \/ UpUnchanged(i) \/ UpWake(i)
    \/ \E nodes \in PolledLists : UpResp(i, nodes)

RunStep == RunFound \/ RunWait \/ RunRecv \/ RunGen \/ RunSend

WatcherNext ==
    \/ RunStep
    \/ \E t \in Subs : SubStep(t)
    \/ \E t \in Subs : SubErr(t)
    \/ \E i \in 1..Len(ups) : UpStep(i)
    \/ \E i \in 1..Len(ups) : UpErr(i)

\* the watcher while lib.Shutdown can close sd.Stop
StoppableNext == WatcherNext \/ Shutdown

\* every component in its initial state
InitComponents ==
    InitLoop /\ InitAuth /\ InitStore /\ InitWatcher /\ InitSide

(***************************************************************************)
(* CheckEnvironment: the version check of the haproxy binary.              *)
(***************************************************************************)
\* what getVersion can find in the output of `haproxy -v`: nothing, or the
\* components of a dotted version with at least two of them
Versions == UNION {[1..n -> 0..MaxVersionPart] : n \in {0, 2, 3}}

minVer == <<2, 0>>
maxVer == <<4, 0>>

\* component i of a version padded to the length of the other one: the pad
\* " " leaves Sscanf's target at 0
Part(v, i) == IF i <= Len(v) THEN v[i] ELSE 0

LongerLen(a, b) == IF Len(a) > Len(b) THEN Len(a) ELSE Len(b)

\* the loop over the components, from component i on
RECURSIVE compareFrom(_, _, _)
compareFrom(a, b, i) ==
    IF i > LongerLen(a, b) THEN 0
    ELSE IF Part(a, i) > Part(b, i) THEN 1
    ELSE IF Part(a, i) < Part(b, i) THEN -1
    ELSE compareFrom(a, b, i + 1)

compareVersion(v1, v2) ==
    IF Len(v1) < 2 \/ Len(v2) < 2
    THEN [res |-> -1, err |-> TRUE]
    ELSE [res |-> compareFrom(v1, v2, 1), err |-> FALSE]

\* the closure ensureVersion: the error it leaves in err
ensureVersion(currVer, lowest, highest) ==
    LET lo == compareVersion(currVer, lowest)
        hi == compareVersion(currVer, highest)
    IN  IF lo.err THEN "not a version"
        ELSE IF lo.res < 0 THEN "too old"
        ELSE IF hi.err THEN "not a version"
        ELSE IF hi.res > 0 THEN "too new"
        ELSE "nil"

\* the check at start-up, for each version the binary can report
InitVersion ==
    /\ InitComponents
    /\ fnArgs \in {<<"CheckEnvironment", v>> : v \in Versions}
    /\ fnRet = NoRet

CheckEnvironment ==
    /\ fnArgs[1] = "CheckEnvironment"
    /\ fnRet = NoRet
    /\ fnRet' = <<ensureVersion(fnArgs[2], minVer, maxVer)>>
    /\ UNCHANGED <<fnArgs, nonFnVars>>

(***************************************************************************)
(* state.Generate and Renderer.Render applied to a snapshot.               *)
(***************************************************************************)
\* the endpoints a snapshot can list for an upstream, in any order and
\* number up to MaxNodes
NodePool == {Node("10.0.0.1", 80, 1), Node("10.0.0.2", 81, 2),
             Node("10.0.0.3", 82, 1)}
NodeSeqs == UNION {[1..n -> NodePool] : n \in 0..MaxNodes}

\* snapshots without an upstream and with the upstream svc_b
GenConfigs ==
    {MkConfig(p, <<>>) : p \in {8080, 9090}}
    \cup {MkConfig(p, <<MkUpstream("svc_b", ns)>>) :
             p \in {8080, 9090}, ns \in NodeSeqs}

InitGenerate ==
    /\ InitComponents
    /\ fnArgs \in {<<"Generate", c>> : c \in GenConfigs}
    /\ fnRet = NoRet

\* the round of HAProxy.watch on a snapshot: the state generated from it and
\* the text rendered from that state
GenerateRender ==
    /\ fnArgs[1] = "Generate"
    /\ fnRet = NoRet
    /\ LET st == Generate(Opts, fnArgs[2])
       IN fnRet' = <<st, Render(st)>>
    /\ UNCHANGED <<fnArgs, nonFnVars>>

(***************************************************************************)
(* HAProxyParams: the parameter maps, With and their rendering.            *)
(***************************************************************************)
\* the keys of the model in the order of Go's < on strings, which is the
\* order text/template ranges over a map
KeysInOrder == <<"another", "http-reuse", "maxconn", "nbthread", "retries">>
KeyRank(k) == CHOOSE i \in 1..Len(KeysInOrder) : KeysInOrder[i] = k

\* a map[string][]string without keys
NoParams == [k \in {} |-> <<>>]

\* DefaultHAProxyParams, two keys of each scope
DefaultHAProxyParams ==
    [Globals |-> [k \in {"maxconn", "nbthread"} |->
                     IF k = "maxconn" THEN <<"1024">> ELSE <<"2">>],
     Defaults |-> [k \in {"http-reuse", "retries"} |->
                      IF k = "retries" THEN <<"3">> ELSE <<"always">>]]

\* a -haproxy-param flag `scope.key=value`
Flag(scope, key, value) == [scope |-> scope, key |-> key, value |-> value]
FlagPool == {Flag(s, k, v) : s \in {"global", "defaults"},
                             k \in {"another", "retries"}, v \in {"1", "2"}}
FlagLists == UNION {[1..n -> FlagPool] : n \in 0..MaxFlags}

\* (mutant) the loop keeps the value a key already has
KeepExisting(new, m) ==
    [k \in DOMAIN new \cup DOMAIN m |->
        IF k \in DOMAIN new THEN new[k] ELSE m[k]]

\* `for k, v := range m { new[k] = v }`
CopyInto(new, m) ==
    [k \in DOMAIN new \cup DOMAIN m |->
        IF k \in DOMAIN m THEN m[k] ELSE new[k]]

\* HAProxyParams.With
With(p, other) ==
    [Defaults |-> CopyInto(CopyInto(NoParams, p.Defaults), other.Defaults),
     Globals |-> CopyInto(CopyInto(NoParams, p.Globals), other.Globals)]

RECURSIVE FlagValues(_, _, _)
\* the values the flags give a key of a scope, in flag order
FlagValues(flags, scope, key) ==
    IF flags = <<>> THEN <<>>
    ELSE (IF Head(flags).scope = scope /\ Head(flags).key = key
          THEN <<Head(flags).value>> ELSE <<>>)
         \o FlagValues(Tail(flags), scope, key)

\* the map of a scope the flags describe
FlagMap(flags, scope) ==
    [k \in {flags[i].key : i \in {j \in 1..Len(flags) : flags[j].scope = scope}}
        |-> FlagValues(flags, scope, k)]

\* utils.MakeHAProxyParams: the flags laid over the built-in defaults
MakeHAProxyParams(flags) ==
    With(DefaultHAProxyParams,
         [Defaults |-> FlagMap(flags, "defaults"),
          Globals |-> FlagMap(flags, "global")])

\* the lines `{{$k}} {{$v}}` of one key
KeyLines(k, vs) == [i \in 1..Len(vs) |-> <<k, vs[i]>>]

RECURSIVE RangeLines(_, _)
\* `range $k, $vs := map`, `range $v := $vs`: the keys left to visit
RangeLines(m, keys) ==
    IF keys = {} THEN <<>>
    ELSE LET k == CHOOSE x \in keys : \A y \in keys : KeyRank(x) <= KeyRank(y)
         IN KeyLines(k, m[k]) \o RangeLines(m, keys \ {k})

\* the global and defaults sections configTemplate emits for the maps
RenderParams(params) ==
    [global |-> RangeLines(params.Globals, DOMAIN params.Globals),
     defaults |-> RangeLines(params.Defaults, DOMAIN params.Defaults)]

InitParams ==
    /\ InitComponents
    /\ fnArgs \in {<<"MakeHAProxyParams", f>> : f \in FlagLists}
    /\ fnRet = NoRet

\* main: the flags are turned into the parameter maps, which the renderer
\* writes out
MakeAndRenderParams ==
    /\ fnArgs[1] = "MakeHAProxyParams"
    /\ fnRet = NoRet
    /\ LET params == MakeHAProxyParams(fnArgs[2])
       IN fnRet' = <<params, RenderParams(params)>>
    /\ UNCHANGED <<fnArgs, nonFnVars>>

\* a run in which the binding and the CA roots change
InitBinding ==
    /\ InitLoop /\ InitAuth /\ InitStore /\ InitFn /\ InitSide
    /\ InitBind(BindingAnswers)
    /\ InitTasks(MaxChanges)

\* a run in which the control plane has one more change in store, enough
\* for an upstream to be removed and declared again
InitRemoval ==
    /\ InitLoop /\ InitAuth /\ InitStore /\ InitFn /\ InitSide
    /\ InitBind(MeshAnswers)
    /\ InitTasks(MaxChanges + 1)

\* a run in which calls can fail at any time
InitFlaky ==
    /\ InitLoop /\ InitAuth /\ InitStore /\ InitFn /\ InitSide
    /\ InitBind(FlakyAnswers)
    /\ InitTasks(MaxChanges)

(***************************************************************************)
(* Watcher.Run: the discovery of the sidecar.                              *)
(***************************************************************************)
\* findSidecarProxy: the first test of the loop body, kind and destination
ByKind(r) == r.Kind = "connect-proxy" /\ r.Dest = WatchedService

\* findSidecarProxy: the second test of the loop body, the name pattern
ByName(r) ==
    LET expectedProxyName == "web-sidecar-proxy"
    IN r.Service = expectedProxyName \/ r.ID = expectedProxyName

\* findSidecarProxy: the loop body returns at an entry that passes either
\* test
Matches(r) == ByKind(r) \/ ByName(r)

\* findSidecarProxy: `for serviceID, service := range services` visits the
\* entries of the map in an order Go leaves unspecified, and returns at the
\* first that matches: the IDs it can return (none: the error)
findSidecarProxy(regs) == {r.ID : r \in {x \in regs : Matches(x)}}

\* Run: `if retryDelay < 5*time.Second { retryDelay = retryDelay * 2 }`
Doubled(d) == IF d < 5000 THEN d * 2 ELSE d

\* Run: the rest of an iteration whose lookup failed: the sleep and the
\* backoff unless this was the last attempt, then i++
AfterFailedLookup(l) ==
    IF l.i < maxRetries - 1
    THEN [l EXCEPT !.i = @ + 1, !.slept = l.retryDelay,
                   !.retryDelay = Doubled(@), !.err = TRUE]
    ELSE [l EXCEPT !.i = @ + 1, !.err = TRUE]

\* the discovery steps leave the rest of the watcher alone
DiscoveryFrame ==
    /\ UNCHANGED <<wgReady, update, upstreams, ups, subPc, subFirst, svcDef,
                   reflects, wBudget, snap, bindVars, pollVars>>
    /\ UNCHANGED <<loopVars, otherVars>>

\* Run: an iteration in which Agent().Services() returns an error
LookupErr ==
    /\ runPc = "discover"
    /\ lookup.i < maxRetries
    /\ lookup' = AfterFailedLookup(lookup)
    /\ UNCHANGED <<runPc, services>>
    /\ DiscoveryFrame

\* Run: an iteration in which no registered service matches
LookupNone ==
    /\ runPc = "discover"
    /\ lookup.i < maxRetries
    /\ findSidecarProxy(services) = {}
    /\ lookup' = AfterFailedLookup(lookup)
    /\ UNCHANGED <<runPc, services>>
    /\ DiscoveryFrame

\* Run: an iteration in which findSidecarProxy returns an ID: `break`
LookupFound ==
    /\ runPc = "discover"
    /\ lookup.i < maxRetries
    /\ \E id \in findSidecarProxy(services) :
           lookup' = [lookup EXCEPT !.proxyID = id, !.err = FALSE]
    /\ runPc' = "lookup"
    /\ UNCHANGED services
    /\ DiscoveryFrame

\* Run: the loop ran out with err set: Run returns the error
LookupGiveUp ==
    /\ runPc = "discover"
    /\ lookup.i = maxRetries
    /\ runPc' = "failed"
    /\ UNCHANGED <<services, lookup>>
    /\ DiscoveryFrame

\* the orchestrator registers one more service while Run is looking
Register ==
    /\ runPc = "discover"
    /\ \E r \in Registrations \ services : services' = services \cup {r}
    /\ UNCHANGED <<runPc, lookup>>
    /\ DiscoveryFrame

DiscoveryNext ==
    LookupErr \/ LookupNone \/ LookupFound \/ LookupGiveUp \/ Register

\* Run from its first line, with any of the registrations there already
InitDiscovery ==
    /\ InitLoop /\ InitAuth /\ InitStore /\ InitFn /\ InitSide
    /\ InitBind(MeshAnswers)
    /\ InitSubscribers(MaxChanges)
    /\ runPc = "discover"
    /\ services \in SUBSET Registrations
    /\ lookup = NewLookup

(***************************************************************************)
(* The supervisor: the log readers and the ready signal.                   *)
(***************************************************************************)
\* readyCh after a send that was taken: make(chan struct{}, 1)
Buffered(ch) == 1

\* (mutant) a plain send `readyCh <- struct{}{}`: it waits for room
SendWaitsForRoom(ch) == ch = 0

\* the select with a default case completes whatever the channel holds
SendCompletes(ch) == TRUE

\* the steps of a log reader leave the rest of the program alone
ReaderFrame ==
    /\ UNCHANGED <<watchVars, writerVars, signalVars, envVars, recvVars,
                   applyVars>>
    /\ UNCHANGED <<authVars, storeVars, watcherVars, fnVars, sdVars,
                   orderVars>>

\* NewWithReadySignal: scan.Scan() returns a line with "Loading success"
\* (printed when the proxy has loaded, at its start and after a reload)
LogScan(r) ==
    /\ pc = "Start" \/ started
    /\ logPc[r] = "scan"
    /\ drained < MaxLines
    /\ drained' = drained + 1
    /\ logPc' = [logPc EXCEPT ![r] = "send"]
    /\ UNCHANGED supVars
    /\ ReaderFrame

\* NewWithReadySignal: `select { case readyCh <- struct{}{}: default: }`,
\* then the next scan.Scan()
LogSend(r) ==
    /\ logPc[r] = "send"
    /\ SendCompletes(readyCh)
    /\ readyCh' = IF readyCh = 0 THEN Buffered(readyCh) ELSE readyCh
    /\ markerAfterStop' = IF readyCh = 0 /\ pc = "Start" THEN stop
                          ELSE markerAfterStop
    /\ logPc' = [logPc EXCEPT ![r] = "scan"]
    /\ UNCHANGED drained
    /\ ReaderFrame

\* the loop up to the return of h.start, and the log readers from the
\* launch of the proxy on
SupervisorNext ==
    \/ \E r \in Readers : LogScan(r)
    \/ \E r \in Readers : LogSend(r)
    \/ pc = "Throttle" /\ (RecvCfg \/ Advance \/ ThrottleTick)
    \/ StartReady \/ StartTimeout

(***************************************************************************)
(* The global shutdown barrier: main, hap.Run and newHaConfig.             *)
(***************************************************************************)
\* sd.Add(1), sd.Done(): the counter of a sync.WaitGroup
Add(c) == c + 1
Done(c) == c - 1

\* the process runs: main has not returned from sd.Wait(), and no Done has
\* taken the counter below zero (a panic)
Alive == mainPc = "wait" /\ sdCount >= 0

\* the calls of newHaConfig that can return an error, in order
ConfigSteps ==
    <<"mkdir", "parse", "open", "execute", "openSpoe", "writeSpoe">>

StepAfter(name) ==
    LET k == CHOOSE i \in 1..Len(ConfigSteps) : ConfigSteps[i] = name
    IN IF k < Len(ConfigSteps) THEN ConfigSteps[k + 1] ELSE "ok"

\* newHaConfig: the error returns that call sd.Done() themselves: after
\* os.MkdirTemp, tmpl.Execute, the OpenFile of the SPOE configuration and
\* its WriteString
DoneOnError(name) == name \in {"mkdir", "execute", "openSpoe", "writeSpoe"}

\* the steps of these tasks leave the rest of the program alone
ShutdownFrame ==
    /\ UNCHANGED <<watchVars, writerVars, throttle, readyCloses, reloads,
                   lastReload, envVars, recvVars, applyVars, supVars>>
    /\ UNCHANGED <<authVars, storeVars, watcherVars, fnVars, readerVars,
                   orderVars>>

\* h.start, called by watch after its first input, calls newHaConfig:
\* sd.Add(1)
NewHaConfigCall ==
    /\ Alive
    /\ pc = "Start"
    /\ hapPc = "running" /\ cfgPc = "idle"
    /\ sdCount' = Add(sdCount)
    /\ cfgPc' = "mkdir"
    /\ UNCHANGED <<mainPc, hapPc, cleanupPc, baseDir, stop>>
    /\ ShutdownFrame

\* newHaConfig: the call at cfgPc succeeds; after os.MkdirTemp the base
\* directory exists and the cleanup task is started
ConfigStepOk ==
    /\ Alive
    /\ cfgPc \notin {"idle", "ok", "err"}
    /\ cfgPc' = StepAfter(cfgPc)
    /\ IF cfgPc = "mkdir"
       THEN baseDir' = TRUE /\ cleanupPc' = "waiting"
       ELSE UNCHANGED <<baseDir, cleanupPc>>
    /\ UNCHANGED <<sdCount, mainPc, hapPc, stop>>
    /\ ShutdownFrame

\* newHaConfig: the call at cfgPc fails and newHaConfig returns the error
ConfigStepErr ==
    /\ Alive
    /\ cfgPc \notin {"idle", "ok", "err"}
    /\ cfgPc' = "err"
    /\ sdCount' = IF DoneOnError(cfgPc) THEN Done(sdCount) ELSE sdCount
    /\ UNCHANGED <<mainPc, hapPc, cleanupPc, baseDir, stop>>
    /\ ShutdownFrame

\* the cleanup task: `<-sd.Stop`, then os.RemoveAll(base)
CleanupRemove ==
    /\ Alive
    /\ cleanupPc = "waiting" /\ stop
    /\ baseDir' = FALSE
    /\ cleanupPc' = "removed"
    /\ UNCHANGED <<sdCount, mainPc, hapPc, cfgPc, stop>>
    /\ ShutdownFrame

\* the cleanup task: the deferred sd.Done()
CleanupDone ==
    /\ Alive
    /\ cleanupPc = "removed"
    /\ sdCount' = Done(sdCount)
    /\ cleanupPc' = "exited"
    /\ UNCHANGED <<mainPc, hapPc, cfgPc, baseDir, stop>>
    /\ ShutdownFrame

\* hap.Run returns the error of newHaConfig: main's task logs it and calls
\* sd.Shutdown
HapFail ==
    /\ Alive
    /\ hapPc = "running" /\ cfgPc = "err"
    /\ stop' = TRUE
    /\ hapPc' = "returned"
    /\ UNCHANGED <<sdCount, mainPc, cfgPc, cleanupPc, baseDir>>
    /\ ShutdownFrame

\* hap.Run returns nil once sd.Stop is closed
HapStop ==
    /\ Alive
    /\ hapPc = "running" /\ cfgPc \in {"idle", "ok"} /\ stop
    /\ hapPc' = "returned"
    /\ UNCHANGED <<sdCount, mainPc, cfgPc, cleanupPc, baseDir, stop>>
    /\ ShutdownFrame

\* main's task: the deferred sd.Done()
HapDone ==
    /\ Alive
    /\ hapPc = "returned"
    /\ sdCount' = Done(sdCount)
    /\ hapPc' = "exited"
    /\ UNCHANGED <<mainPc, cfgPc, cleanupPc, baseDir, stop>>
    /\ ShutdownFrame

\* main: sd.Wait() returns, and with it the process ends
MainReturn ==
    /\ Alive
    /\ sdCount = 0
    /\ mainPc' = "returned"
    /\ UNCHANGED <<sdCount, hapPc, cfgPc, cleanupPc, baseDir, stop>>
    /\ ShutdownFrame

ShutdownNext ==
    \/ NewHaConfigCall \/ ConfigStepOk \/ ConfigStepErr
    \/ CleanupRemove \/ CleanupDone
    \/ HapFail \/ HapStop \/ HapDone
    \/ MainReturn
    \/ Alive /\ Shutdown
    \/ Alive /\ hapPc = "running" /\ pc = "Throttle"
           /\ (RecvCfg \/ Advance \/ ThrottleTick)

(***************************************************************************)
(* Specification of the convergence loop.                                  *)
(***************************************************************************)
\* the steps the loop's goroutine takes on its own
LoopStep ==
    \/ ThrottleStop \/ ThrottleTick
    \/ StartReady \/ StartTimeout \/ StartShutdown
    \/ GenerateOk \/ GenerateErr
    \/ RenderOk \/ RenderErr
    \/ ApplyWriteOk \/ ApplyWriteErr
    \/ ApplyValidateOk \/ ApplyValidateErr
    \/ ApplyRenameOk \/ ApplyRenameErr
    \/ ApplySignalOk \/ ApplySignalErr
    \/ WaitAndRetry

LoopNext == LoopStep \/ RecvCfg \/ Advance \/ Shutdown \/ LogReady

vars == <<loopVars, authVars, storeVars, watcherVars, fnVars, sideVars>>

Init == InitComponents /\ InitFn

Next == LoopNext

Spec == Init /\ [][Next]_vars

\* the Go scheduler runs a goroutine that can take a step, and time passes
FairSpec == Spec /\ WF_vars(LoopStep) /\ WF_vars(Advance)

(***************************************************************************)
(* Specification of the authorization responder.                           *)
(***************************************************************************)
AuthNext ==
    \/ \E c \in Callers : isAuthorized(c)
    \/ \E e \in 1..Len(heap) : \E auth \in BOOLEAN : FetchOk(e, auth)
    \/ \E e \in 1..Len(heap) : FetchErr(e)
    \/ \E c \in Callers : SelectSignal(c)
    \/ \E c \in Callers : SelectTimeout(c)
    \/ \E c \in Callers : HandlerReject(c)
    \/ TimePasses

AuthSpec == Init /\ [][AuthNext]_vars

(***************************************************************************)
(* Specification of the certificate store.                                 *)
(***************************************************************************)
StoreSpec == Init /\ [][StoreNext]_vars

(***************************************************************************)
(* Specification of the watcher.                                           *)
(***************************************************************************)
WatcherSpec == Init /\ [][WatcherNext]_vars

\* the Go scheduler runs every goroutine that can take a step, the control
\* plane answers every poll, and the consumer keeps receiving from w.C
FairWatcherSpec ==
    /\ WatcherSpec
    /\ WF_vars(RunStep)
    /\ \A t \in Subs : WF_vars(SubStep(t))
    /\ \A i \in 1..MaxUpstreams : WF_vars(i <= Len(ups) /\ UpStep(i))

\* the watcher with a control plane whose calls fail at any time
FlakySpec == InitFlaky /\ [][WatcherNext]_vars

\* the steps of watch while no shutdown is requested
RoundStep ==
    \/ ThrottleTick
    \/ StartReady \/ StartTimeout
    \/ GenerateOk \/ GenerateErr
    \/ RenderOk \/ RenderErr
    \/ ApplyWriteOk \/ ApplyWriteErr
    \/ ApplyValidateOk \/ ApplyValidateErr
    \/ ApplyRenameOk \/ ApplyRenameErr
    \/ ApplySignalOk \/ ApplySignalErr
    \/ WaitAndRetry

\* the two ends of the channel w.C, each run on its own while no shutdown
\* is requested: the watcher with the history of its writes, and the
\* convergence loop fed with snapshots
InitOrder ==
    /\ InitLoop /\ InitAuth /\ InitStore /\ InitFn /\ InitSide
    /\ \E answers \in {StampedAnswers, MeshAnswers} : InitBind(answers)
    /\ InitTasks(MaxChanges)

OrderNext ==
    \/ offered.stamped /\ WatcherNext
    \/ ~offered.stamped /\ (RoundStep \/ RecvCfg \/ Advance \/ LogReady)

OrderSpec == InitOrder /\ [][OrderNext]_vars

\* the discovery loop of Run
DiscoverySpec == InitDiscovery /\ [][DiscoveryNext]_vars

\* the supervisor's log readers and Start
SupervisorSpec == Init /\ [][SupervisorNext]_vars

\* the shutdown barrier with main, hap.Run and newHaConfig
ShutdownSpec == Init /\ [][ShutdownNext]_vars

\* genCfg applied to the upstreams the watcher can hold
GenCfgSpec == InitGenCfg /\ [][RunGen]_vars

\* the same while shutdown can be requested
FairStoppableSpec ==
    /\ Init /\ [][StoppableNext]_vars
    /\ WF_vars(RunStep)
    /\ \A t \in Subs : WF_vars(SubStep(t))
    /\ \A i \in 1..MaxUpstreams : WF_vars(i <= Len(ups) /\ UpStep(i))


(***************************************************************************)
(* Specification of the start-up checks.                                   *)
(***************************************************************************)
VersionSpec == InitVersion /\ [][CheckEnvironment]_vars

(***************************************************************************)
(* Specification of generation and rendering.                              *)
(***************************************************************************)
GenerateSpec == InitGenerate /\ [][GenerateRender]_vars

(***************************************************************************)
(* Specification of the parameter overlays.                                *)
(***************************************************************************)
ParamsSpec == InitParams /\ [][MakeAndRenderParams]_vars

\* the watcher in a run in which the downstream binding and the CA roots
\* change
BindingSpec == InitBinding /\ [][WatcherNext]_vars

\* the watcher in a run in which an upstream can be removed and declared
\* again
RemovalSpec == InitRemoval /\ [][WatcherNext]_vars

(***************************************************************************)
(* Claims about the convergence loop and the config writer.                *)
(***************************************************************************)
TextOf(cfg) == Render(Generate(Opts, cfg))

\* C1: after a round in which Render or ApplyConfig failed, the loop runs
\* another round without any new snapshot (unless shutdown is requested);
\* and when nothing fails any more, the state is then applied and readiness
\* signalled.
C1_RetryAfterFailedRound ==
    /\ [](pc = "WaitAndRetry" => <>(pc = "Generate" \/ stop))
    /\ [](pc = "WaitAndRetry" /\ failBudget = 0
            => <>((ready /\ Equal(currentState, Generate(Opts, currentConfig)))
                  \/ stop))

\* C2: between two ticks consumed by the loop there is at most one
\* ApplyConfig call, it signals at most one reload, and the text it is given
\* is the one rendered from the last snapshot received, however many inputs
\* the window absorbed.
C2_WindowCoalesced ==
    /\ appliesSinceTick <= 1
    /\ lastApply.reloadsAfter - lastApply.reloadsBefore <= 1
    /\ pc = "ApplyConfig" => config = TextOf(lastDelivered)
    /\ pc \in {"Generate", "Render", "ApplyConfig"} =>
           currentConfig = lastDelivered

\* C2 witness: two different snapshots were received with no tick consumed
\* between them, and the single round of that window applied the second.
C2_Witness ==
    /\ sent = 2 /\ ~tickBetween /\ ~allSame
    /\ applyCalls = 1 /\ applyOks = 1 /\ appliesSinceTick = 1
    /\ lastApply.text = TextOf(lastDelivered)

\* two snapshots have been delivered, 100 ms apart, and nothing else
TwoSnapshotsCloseTogether == sent = 2 /\ lastGap = TimeStep

\* every ApplyConfig call so far is the only one and carries the text of the
\* second snapshot
OnlySecondApplied ==
    /\ applyCalls <= 1
    /\ applyCalls = 1 => lastApply.text = TextOf(lastDelivered)
    /\ pc = "ApplyConfig" => applyCalls = 0 /\ config = TextOf(lastDelivered)

\* the round of the window has run to its end and nothing failed in it
QuietAfterRound ==
    pc = "Throttle" /\ ~inputReceived /\ failBudget = MaxFailures

\* C3 (as claimed): two snapshots delivered 100 ms apart result in exactly
\* one ApplyConfig call, carrying the second snapshot's text, wherever the
\* ticks fall.
C3_OneApplyWhereverTicksFall ==
    TwoSnapshotsCloseTogether =>
        /\ OnlySecondApplied
        /\ QuietAfterRound => applyCalls = 1

\* C3 (amended): the same, provided the loop consumes no tick between the
\* two deliveries; when it does, the first snapshot has had a round of its
\* own, so that up to two calls are made, the second snapshot's last.
C3_OneApplyUnlessTickBetween ==
    TwoSnapshotsCloseTogether =>
        /\ ~tickBetween => OnlySecondApplied
        /\ ~tickBetween /\ QuietAfterRound => applyCalls = 1
        /\ tickBetween => applyCalls <= 2
        /\ tickBetween /\ QuietAfterRound =>
               applyCalls >= 1 /\ lastApply.text = TextOf(lastDelivered)

\* C3 witness: two different snapshots 100 ms apart, no tick between them,
\* and the one call that followed carried the second one's text.
C3_Witness ==
    /\ TwoSnapshotsCloseTogether /\ ~tickBetween /\ ~allSame
    /\ QuietAfterRound /\ applyCalls = 1
    /\ lastApply.text = TextOf(lastDelivered)

\* C4: a round whose generated state equals the last-applied state neither
\* renders nor applies; once a snapshot has been applied, further snapshots
\* equal to it cause no ApplyConfig call.
C4_NoApplyWhenUnchanged ==
    /\ pc \in {"Render", "ApplyConfig"} => ~Equal(currentState, newState)
    /\ allSame /\ applyOks >= 1 =>
           /\ applyOks = 1
           /\ lastApply.err = NoErr
           /\ pc \notin {"Render", "ApplyConfig", "WaitAndRetry"}

\* C4 witness: the same snapshot was delivered twice, a round ran after each
\* delivery, nothing failed, and only one ApplyConfig call was made.
C4_Witness ==
    /\ sent = 2 /\ allSame /\ tickBetween
    /\ QuietAfterRound /\ applyCalls = 1 /\ applyOks = 1 /\ reloads = 1

\* C5: Ready is closed at most once, exactly when the first ApplyConfig call
\* has succeeded: never before, and not again by later successes.
C5_ReadyClosedOnce ==
    /\ readyCloses <= 1
    /\ readyCloses = 1 <=> applyOks >= 1
    /\ ready <=> readyCloses = 1

\* C5 witness: two applies have succeeded and Ready was closed once.
C5_Witness == applyOks = 2 /\ readyCloses = 1

\* C6: an ApplyConfig call that failed in validation has removed the
\* temporary file, returned the captured output, left the installed file as
\* it was and sent no reload signal.
C6_InvalidConfigRejected ==
    lastApply.err.kind = "validate" =>
        /\ lastApply.tmpAfter = <<>>
        /\ lastApply.err.output # ""
        /\ lastApply.cfgAfter = lastApply.cfgBefore
        /\ lastApply.reloadsAfter = lastApply.reloadsBefore

\* C6 witness: validation failed while an earlier text was installed.
C6_Witness ==
    /\ lastApply.err.kind = "validate"
    /\ applyOks = 1 /\ lastApply.cfgBefore # BaseText
    /\ cfgFile = lastApply.cfgBefore

\* C7: when ApplyConfig returns nil the installed file is the text it was
\* given and one reload signal went to the master PID; every reload signal
\* was sent with the validated text of its call already installed.
C7_AppliedIsInstalledThenSignalled ==
    /\ applyCalls > 0 /\ lastApply.err = NoErr =>
           /\ lastApply.cfgAfter = lastApply.text
           /\ lastApply.reloadsAfter = lastApply.reloadsBefore + 1
           /\ lastReload.text = lastApply.text
    /\ reloads > 0 =>
           /\ lastReload.pid = ProxyPID
           /\ lastReload.installed = lastReload.text
           /\ lastReload.validated

\* C7 witness: a second text was applied over the first.
C7_Witness ==
    /\ applyOks = 2 /\ lastApply.err = NoErr /\ reloads = 2
    /\ lastApply.cfgBefore # BaseText /\ lastApply.cfgBefore # cfgFile


(***************************************************************************)
(* Claims about the authorization cache.                                   *)
(***************************************************************************)
Started(c) == callPc[c] # "idle"
Returned(c) == callPc[c] = "returned"

\* calls d and c belong to one group of concurrent lookups that began with
\* no fresh entry: d launched the fetch and had not returned when c started
SameFlight(d, c) == Started(c) /\ d \in overlap[c] /\ issued[d]

\* the call returned what the entry's fetch stored
GotFetchResult(c) ==
    /\ callRes[c].err = ""
    /\ heap[waitOn[c]].C = "closed"
    /\ callRes[c].value = heap[waitOn[c]].Value

\* the call returned on its deadline, the fetch not having completed before
GotTimeout(c) ==
    /\ callRes[c].err = TimeoutErr
    /\ callRes[c].value = FALSE
    /\ Sub(callRes[c].at, callStart[c]) = authzTimeout
    /\ \/ heap[waitOn[c]].C = "open"
       \/ heap[waitOn[c]].doneAt >= callRes[c].at

FoundFetched(c) == Started(c) /\ seen[c].fetch = "ok"

ServedFromCache(c) ==
    /\ ~issued[c]
    /\ Returned(c) =>
         /\ callRes[c].err = ""
         /\ callRes[c].value = seen[c].Value
         /\ callRes[c].at = callStart[c]

\* C9 (as stated): counted from the completion of a successful fetch, a
\* lookup within 1 s is served from the cache without a backend call, and a
\* lookup more than 1 s later issues a backend call, however long the fetch
\* took.
C9_TTLFromFetchCompletion ==
    \A c \in Callers :
        FoundFetched(c) =>
            IF Sub(callStart[c], seen[c].doneAt) <= cacheTTL
            THEN ServedFromCache(c)
            ELSE issued[c]

\* C9 (amended): the 1 s is counted from the creation of the entry, that is
\* from the start of the fetch: a lookup within 1 s of it is served from the
\* cache without a backend call, a lookup more than 1 s after it issues one.
C9_TTLFromEntryCreation ==
    \A c \in Callers :
        FoundFetched(c) =>
            IF Sub(callStart[c], seen[c].createdAt) <= cacheTTL
            THEN ServedFromCache(c)
            ELSE issued[c]

\* C9 witness: after a fetch that took some time, one lookup was served from
\* the cache and another, less than 1 s after the fetch completed but more
\* than 1 s after it started, issued a backend call
C9_Witness ==
    /\ \E c \in Callers :
         /\ FoundFetched(c) /\ Returned(c) /\ ~issued[c]
         /\ callRes[c].value
    /\ \E c \in Callers :
         /\ FoundFetched(c) /\ issued[c]
         /\ seen[c].doneAt > seen[c].createdAt
         /\ Sub(callStart[c], seen[c].doneAt) <= cacheTTL
         /\ Sub(callStart[c], seen[c].createdAt) > cacheTTL

\* the call timed out on an entry whose fetch was still running
TimedOutOn(d, e) ==
    /\ Returned(d) /\ waitOn[d] = e
    /\ callRes[d].err = TimeoutErr
    /\ heap[e].C = "open" \/ heap[e].doneAt >= callRes[d].at

FailedEntryDenies ==
    \A e \in 1..Len(heap) :
        heap[e].fetch = "err" =>
            /\ heap[e].Value = FALSE /\ heap[e].At = ZeroTime
            /\ \A c \in Callers :
                 Returned(c) /\ waitOn[c] = e => callRes[c].value = FALSE

Handled(c) == callPc[c] = "returned"

\* C12: every request with a decodable certificate and a parseable URI gets
\* auth (1 when the lookup yields authorized, else 0) and source_app set,
\* whatever the lookup's outcome; auth is 1 only if a fetch answered
\* "authorized".
C12_VarsAlwaysSet ==
    \A c \in Callers :
        Handled(c) =>
            /\ setVars[c] # <<>>
            /\ setVars[c][1].auth = (IF callRes[c].value THEN 1 ELSE 0)
            /\ setVars[c][1].source_app =
                   (IF CertIsService(c) THEN "client" ELSE "")
            /\ setVars[c][1].auth = 1 =>
                   heap[waitOn[c]].fetch = "ok" /\ heap[waitOn[c]].Value

(***************************************************************************)
(* Claims about the supervisor's Start.                                    *)
(***************************************************************************)
\* Start returns the PID only by taking a signal from the ready channel
PidOnlyAfterMarker ==
    [][started' # started => readyCh = 1 /\ masterPID' = ProxyPID]_vars

\* after an error from Start the loop has ended with that error, no PID is
\* known and nothing was applied
StartErrorIsFatal ==
    /\ masterPID # 0 <=> started
    /\ retErr.kind = "start" =>
          /\ pc = "Done" /\ ~started /\ masterPID = 0
          /\ applyCalls = 0 /\ reloads = 0 /\ readyCloses = 0
          /\ cfgFile = BaseText /\ tmpFile = <<>>

\* C19 (as stated): Start returns the PID only after the ready marker was
\* seen; when the timeout or the shutdown request comes first it returns an
\* error and no PID, and the loop ends with that error, nothing applied.
C19_StartPidOnlyIfMarkerFirst ==
    /\ PidOnlyAfterMarker
    /\ []StartErrorIsFatal
    /\ [][markerAfterStop => ~started']_vars

\* C19 (amended): Start returns the PID only after the ready marker was
\* seen; when its select takes the timeout or the shutdown case it returns
\* an error and no PID, and the loop ends with that error, nothing applied.
\* A marker read after shutdown was requested can still be taken.
C19_StartPidOnlyAfterMarker ==
    /\ PidOnlyAfterMarker
    /\ []StartErrorIsFatal

\* C19 witness: Start returned the shutdown error although the ready signal
\* was in the channel, and the loop ended with it
C19_Witness ==
    /\ pc = "Done" /\ retErr.kind = "start" /\ stop /\ readyCh = 1
    /\ sent > 0 /\ applyCalls = 0


(***************************************************************************)
(* Claims about the certificate store.                                     *)
(***************************************************************************)
\* the call of c has returned a path and no error
Stored(c) == fpPc[c] = "returned" /\ fpRet[c].err = ""

\* C17: a call that returns a path returns <base>/<digest of its content>;
\* two calls return the same path exactly when their contents are the same;
\* and a call made when the file for its content is already there does not
\* open the file for writing.
C17_ContentAddressedWriteOnce ==
    \A c \in Callers :
        /\ Stored(c) =>
              /\ fpRet[c].path = <<"base", Sum256(fpContent[c])>>
              /\ \A d \in Callers :
                    Stored(d) =>
                        ((fpContent[c] = fpContent[d])
                            <=> (fpRet[c].path = fpRet[d].path))
        /\ fpExisted[c] /\ fpPc[c] # "idle" =>
              /\ ~fpOpened[c]
              /\ fpPc[c] = "returned"

\* a second call with the content of a first found the file, and a third
\* call stored other content
C17_Witness ==
    \E c, d, e \in Callers :
        /\ Stored(c) /\ Stored(d) /\ Stored(e)
        /\ c < d /\ fpContent[c] = fpContent[d]
        /\ fpOpened[c] /\ fpExisted[d] /\ ~fpOpened[d]
        /\ fpContent[e] # fpContent[c] /\ fpOpened[e]

\* C18: whenever a call has returned a path without error, the file at that
\* path holds exactly the content of the call.
C18_ReturnedFileHoldsContent ==
    \A c \in Callers :
        Stored(c) => files[fpRet[c].path] = fpContent[c]

(***************************************************************************)
(* Claims about the watcher.                                               *)
(***************************************************************************)
\* Run is past w.ready.Wait()
Tripped == runPc \in {"range", "gen", "send"}

\* every subscriber the barrier counts has had its first successful
\* response: the sidecar definition, the CA bundle, the leaf, and every
\* upstream goroutine started by the first definition
AllFirstResponses ==
    /\ svcDef # 0
    /\ ~subFirst["ca"] /\ ~subFirst["leaf"]
    /\ \A i \in 1..Len(ups) : ups[i].startup => ~ups[i].first

\* C13: no snapshot is built or sent, and Run is not past the barrier,
\* before all first responses have arrived; a signal raised before stays
\* pending in w.update.
C13_NoSnapshotBeforeBarrier ==
    /\ (Tripped \/ reflects \in {"built", "sent"}) => AllFirstResponses
    /\ (~AllFirstResponses /\ \E t \in Subs : ~subFirst[t]) => update = 1

\* a snapshot was emitted after an upstream started by the first
\* definition had its first response, with a signal raised before that
C13_Witness ==
    /\ reflects = "sent"
    /\ \E i \in 1..Len(ups) : ups[i].startup /\ ~ups[i].first

\* every write made so far has been followed by its notifyChanged
Signalled ==
    /\ \A t \in Subs : subPc[t] # "notify"
    /\ \A i \in 1..Len(ups) : ups[i].pc # "notify"

\* C15: once Run is past the barrier and the writes made to the shared state
\* have been signalled, a snapshot built after the last of them is
\* eventually received from w.C.
C15_NoLostUpdate ==
    (Tripped /\ Signalled /\ reflects \in {"written", "built"})
        ~> (reflects = "sent")

\* a change was written and signalled while Run was sending an older
\* snapshot, and the signal is pending
C15_Witness ==
    /\ Tripped /\ Signalled
    /\ reflects = "written"
    /\ runPc = "send"
    /\ update = 1

\* C14: once the sidecar is found and every poll is eventually answered,
\* Run gets past the barrier and a first snapshot is received from w.C,
\* whatever the first sidecar definition and its later changes are.
C14_FirstSnapshotEventually == <>(Tripped /\ reflects = "sent")

\* the endpoints the contract keeps: passing or warning, with a non-zero
\* weight for that status
Kept(s) ==
    \/ s.Status = "passing" /\ s.Passing # 0
    \/ s.Status = "warning" /\ s.Warning # 0

\* C16: the snapshot genCfg built lists exactly the upstreams held, in the
\* order of their names, each with exactly its passing and warning
\* endpoints of non-zero weight, in the order the subscriber stored them and
\* with the weight of their status.
C16_SnapshotContent ==
    runPc = "send" =>
        LET U == snap.Upstreams
            held == {n \in UpstreamNames : upstreams[n] # 0}
        IN /\ Len(U) = Cardinality(held)
           /\ {U[k].Name : k \in 1..Len(U)} = held
           /\ \A k, l \in 1..Len(U) :
                 k < l => NameRank(U[k].Name) < NameRank(U[l].Name)
           /\ \A k \in 1..Len(U) :
                 LET kept == SelectSeq(ups[upstreams[U[k].Name]].Nodes, Kept)
                 IN /\ Len(U[k].Nodes) = Len(kept)
                    /\ \A j \in 1..Len(kept) :
                          /\ U[k].Nodes[j].Port = kept[j].Port
                          /\ U[k].Nodes[j].Host \in
                                {kept[j].Address, kept[j].NodeAddress}
                          /\ U[k].Nodes[j].Host # ""
                          /\ U[k].Nodes[j].Weight =
                                IF kept[j].Status = "passing"
                                THEN kept[j].Passing
                                ELSE kept[j].Warning

\* a snapshot of two upstreams stored against the order of their names,
\* with critical, maintenance and zero-weight endpoints left out
C16_Witness ==
    /\ runPc = "send"
    /\ Len(snap.Upstreams) = 2
    /\ NameRank(ups[1].Name) > NameRank(ups[2].Name)
    /\ ups[1].Nodes = <<EWarn, ECrit, EPass>>
    /\ ups[2].Nodes = <<EZero, EMaint, EWarn>>
    /\ Len(snap.Upstreams[1].Nodes) = 1
    /\ Len(snap.Upstreams[2].Nodes) = 2

\* the subscribers, the upstream goroutines and Run have returned
WatcherStopped ==
    /\ runPc = "returned"
    /\ \A t \in Subs : subPc[t] = "returned"
    /\ \A i \in 1..Len(ups) : ups[i].pc = "exited"

\* C20: after the shutdown signal every task of the watcher eventually
\* stops.
C20_WatcherStopsAfterShutdown == stop ~> WatcherStopped

(***************************************************************************)
(* Claims about the start-up checks.                                       *)
(***************************************************************************)
\* a is below b, component by component, the shorter one padded with zeros
VersionBelow(a, b) ==
    \E i \in 1..LongerLen(a, b) :
        /\ Part(a, i) < Part(b, i)
        /\ \A j \in 1..(i - 1) : Part(a, j) = Part(b, j)

InRange(v) == ~VersionBelow(v, <<2, 0>>) /\ VersionBelow(v, <<4, 0>>)

Checked == fnArgs[1] = "CheckEnvironment" /\ fnRet # NoRet

\* C21: the version check accepts a version exactly when it is at least 2.0
\* and below 4.0; 4.0, 4.0.0 and 4.1 are rejected.
C21_AcceptsExactlyTheRange ==
    (Checked /\ Len(fnArgs[2]) >= 2) =>
        ((fnRet[1] = "nil") <=> InRange(fnArgs[2]))

(***************************************************************************)
(* Claims about the generated state and its rendering.                     *)
(***************************************************************************)
\* every frontend's default_backend names a backend of the same state
Closed(st) ==
    \A i \in 1..Len(st.Frontends) :
        \E j \in 1..Len(st.Backends) :
            st.Backends[j].Name = st.Frontends[i].DefaultBackend

\* the same for a rendered text
ClosedText(text) ==
    \A i \in 1..Len(text.Frontends) :
        \E j \in 1..Len(text.Backends) :
            text.Backends[j].backend = text.Frontends[i].default_backend

\* C22: the state the loop renders or applies, the texts it writes and the
\* state it records as last-applied have a backend for every frontend's
\* default_backend, also after a generation that failed part-way through an
\* upstream.
C22_NoFrontendWithoutBackend ==
    /\ pc \in {"Render", "ApplyConfig"} => Closed(newState)
    /\ Closed(currentState)
    /\ ClosedText(config) /\ ClosedText(cfgFile)
    /\ \A i \in 1..Len(tmpFile) : ClosedText(tmpFile[i])

\* a generation failed after the frontend of an upstream was appended
C22_Witness == pc = "Throttle" /\ ~Closed(newState)

Generated == fnArgs[1] = "Generate" /\ fnRet # NoRet

\* the backend of the state with the given name (a state has one)
BackendNamed(st, name) ==
    st.Backends[CHOOSE j \in 1..Len(st.Backends) : st.Backends[j].Name = name]

\* C24: for an upstream with n endpoints the backend back_<name> has the n
\* servers srv_0 .. srv_{n-1}, one per endpoint in snapshot order, and its
\* retries value is n-1, but at least 1.
C24_ServersAndRetries ==
    Generated =>
        \A u \in 1..Len(fnArgs[2].Upstreams) :
            LET up == fnArgs[2].Upstreams[u]
                n == Len(up.Nodes)
                st == fnRet[1]
            IN /\ \E j \in 1..Len(st.Backends) :
                      st.Backends[j].Name = "back_" \o up.Name
               /\ LET be == BackendNamed(st, "back_" \o up.Name)
                  IN /\ Len(be.Servers) = n
                     /\ \A i \in 1..n :
                            /\ be.Servers[i].Name = "srv_" \o ToString(i - 1)
                            /\ be.Servers[i].Address = up.Nodes[i].Host
                            /\ be.Servers[i].Port = up.Nodes[i].Port
                     /\ be.Retries >= 1 /\ be.Retries >= n - 1
                     /\ be.Retries \in {1, n - 1}

\* a state was generated from a snapshot whose upstream has three endpoints
C24_Witness ==
    /\ Generated
    /\ Len(fnArgs[2].Upstreams) = 1
    /\ Len(fnArgs[2].Upstreams[1].Nodes) = 3
    /\ BackendNamed(fnRet[1], "back_svc_b").Retries = 2

\* the state with the retries of backend j raised by one
WithOtherRetries(st, j) == [st EXCEPT !.Backends[j].Retries = @ + 1]

\* the state with the check interval of server k of backend j doubled
WithOtherInter(st, j, k) ==
    [st EXCEPT !.Backends[j].Servers[k].Inter = 2 * @]

\* C25: two states that differ in the retries of a backend or in a check
\* parameter of a health-checked server never render to the same text.
C25_RenderKeepsRetriesAndChecks ==
    Generated =>
        \A j \in 1..Len(fnRet[1].Backends) :
            /\ Render(WithOtherRetries(fnRet[1], j)) # fnRet[2]
            /\ \A k \in 1..Len(fnRet[1].Backends[j].Servers) :
                   fnRet[1].Backends[j].Servers[k].Check = "enabled" =>
                       Render(WithOtherInter(fnRet[1], j, k)) # fnRet[2]

(***************************************************************************)
(* Claims about the parameter overlays.                                    *)
(***************************************************************************)
ParamsMade == fnArgs[1] = "MakeHAProxyParams" /\ fnRet # NoRet

\* the flags of a scope naming a key, in flag order
FlagsFor(flags, scope, key) ==
    SelectSeq(flags, LAMBDA f : f.scope = scope /\ f.key = key)

\* the merged map of a scope is the right-biased overlay of the flags on the
\* built-in map
RightBiased(merged, builtin, flags, scope) ==
    LET userKeys == {flags[i].key : i \in {j \in 1..Len(flags) :
                                             flags[j].scope = scope}}
    IN /\ DOMAIN merged = DOMAIN builtin \cup userKeys
       /\ \A k \in DOMAIN merged :
              IF k \in userKeys
              THEN LET fs == FlagsFor(flags, scope, k)
                   IN merged[k] = [i \in 1..Len(fs) |-> fs[i].value]
              ELSE merged[k] = builtin[k]

\* the lines are grouped by key in ascending key order, one line per value
\* of the key, in the order of its values
SortedLines(lines, m) ==
    /\ \A i \in 1..(Len(lines) - 1) :
           KeyRank(lines[i][1]) <= KeyRank(lines[i + 1][1])
    /\ \A k \in DOMAIN m :
           SelectSeq(lines, LAMBDA l : l[1] = k)
               = [i \in 1..Len(m[k]) |-> <<k, m[k][i]>>]
    /\ \A i \in 1..Len(lines) : lines[i][1] \in DOMAIN m

\* C26: the merged parameters have the keys of the built-in defaults and of
\* the user's flags; a key the user set has the user's values, all of them in
\* flag order, and the other keys keep the built-in values; the rendering
\* emits the keys in sorted order with one line per value.
C26_RightBiasedSortedOverlay ==
    ParamsMade =>
        /\ RightBiased(fnRet[1].Globals, DefaultHAProxyParams.Globals,
                       fnArgs[2], "global")
        /\ RightBiased(fnRet[1].Defaults, DefaultHAProxyParams.Defaults,
                       fnArgs[2], "defaults")
        /\ SortedLines(fnRet[2].global, fnRet[1].Globals)
        /\ SortedLines(fnRet[2].defaults, fnRet[1].Defaults)

\* the user set the built-in key retries twice and a key of their own
C26_Witness ==
    /\ ParamsMade
    /\ fnRet[1].Defaults["retries"] = <<"2", "1">>
    /\ "another" \in DOMAIN fnRet[1].Defaults
    /\ fnRet[1].Globals["maxconn"] = <<"1024">>

(***************************************************************************)
(* Claims about the downstream binding and the CA list of the watcher.     *)
(***************************************************************************)
\* the consul.Config genCfg returned: the binding, the CA list as it is in
\* memory, the upstreams
SnapshotConfig ==
    [ServiceName |-> "web", ServiceID |-> "web-1",
     Downstream |->
         [LocalBindAddress |-> snapDown.Downstream.LocalBindAddress,
          LocalBindPort |-> snapDown.Downstream.LocalBindPort,
          TargetAddress |-> snapDown.Downstream.TargetAddress,
          TargetPort |-> snapDown.Downstream.TargetPort,
          Protocol |-> snapDown.Downstream.Protocol,
          ConnectTimeout |-> 30000, ReadTimeout |-> 60000,
          EnableForwardFor |-> snapDown.Downstream.EnableForwardFor,
          AppNameHeaderName |-> snapDown.Downstream.AppNameHeaderName,
          TLS |-> [Cert |-> "leaf1", Key |-> "key1",
                   CAs |-> Elems(caHeap, snapDown.CAs)]],
     Upstreams |-> [i \in 1..Len(snap.Upstreams) |->
                       MkUpstream(snap.Upstreams[i].Name,
                                  snap.Upstreams[i].Nodes)]]

\* C23: in the state generated from any snapshot the watcher sends, every
\* server of every backend has a port above 0.
C23_ServerPortsPositive ==
    runPc = "send" =>
        LET st == Generate(Opts, SnapshotConfig)
        IN \A j \in 1..Len(st.Backends) :
               \A k \in 1..Len(st.Backends[j].Servers) :
                   st.Backends[j].Servers[k].Port > 0

\* the binding is the one a single sidecar definition gives: its bind port
\* together with its target address
OfOneDefinition(ds) ==
    \E d \in offered.defs :
        /\ ds.LocalBindPort = SidecarBindings[d].Port
        /\ ds.TargetAddress = ConfigOr(SidecarBindings[d].Config,
                                       "local_service_address", "127.0.0.1")

\* C27: the writes to the watcher's shared model are made under the mutex,
\* so a snapshot never shows a partially applied sidecar definition, such as
\* the bind port of one definition with the target address of another.
C27_NoPartialDefinition ==
    runPc = "send" => OfOneDefinition(snapDown.Downstream)

\* the binding sidecar definition d gives on its own: its keys, and the
\* defaults for the keys it omits
BindingOf(d) ==
    LET c == SidecarBindings[d].Config
    IN [LocalBindAddress |-> "0.0.0.0",
        LocalBindPort |-> SidecarBindings[d].Port,
        Protocol |-> ConfigOr(c, "protocol", ""),
        TargetAddress |-> ConfigOr(c, "local_service_address", "127.0.0.1"),
        TargetPort |-> ConfigOr(c, "local_service_port", startPort),
        EnableForwardFor |-> ConfigOr(c, "enable_forwardfor", FALSE),
        AppNameHeaderName |-> ConfigOr(c, "appname_header", "")]

\* C29: in a snapshot built after the handler of a sidecar definition has
\* finished, the downstream binding is the one that definition gives on its
\* own; nothing an earlier definition set persists.
C29_BindingOfLatestDefinition ==
    (runPc = "send" /\ snapDown.def # 0 /\ ~snapDown.mid) =>
        snapDown.Downstream = BindingOf(snapDown.def)

\* C28: the CA list of the snapshot the consumer received is still what it
\* was on receipt, whatever the watcher has written since.
C28_SentSnapshotUnchanged ==
    received # NoReceived => Elems(caHeap, received.CAs) = received.was

(***************************************************************************)
(* Claims about the removal of an upstream.                                *)
(***************************************************************************)
\* C30: a snapshot lists only upstreams w.upstreams holds when it is built,
\* none that was removed; the goroutine of a removed upstream issues no poll
\* after the one in flight; and the endpoint list of a record is written
\* only by the goroutine started with it, so never by the goroutine of an
\* earlier upstream of the same name.
C30_RemovedUpstreamGone ==
    [][/\ (runPc = "gen" /\ runPc' = "send") =>
              \A k \in 1..Len(snap'.Upstreams) :
                  LET n == snap'.Upstreams[k].Name
                  IN /\ upstreams[n] # 0
                     /\ ~ups[upstreams[n]].done
                     /\ snap'.Upstreams[k].Nodes
                            = genNodes(ups[upstreams[n]].Nodes)
       /\ \A i \in 1..Len(ups) :
              /\ (ups[i].done /\ ups[i].pc # "poll") => ups'[i].pc # "poll"
              /\ ups'[i].Nodes # ups[i].Nodes =>
                     (ups[i].pc = "poll" /\ ups'[i].pc = "notify")
      ]_vars

\* an upstream was removed while its first poll was in flight and declared
\* again; the old goroutine has written the endpoints of that poll to its own
\* record and exited, and the new record has the endpoints of its goroutine
C30_Witness ==
    \E i, j \in 1..Len(ups) :
        /\ i < j
        /\ ups[i].Name = ups[j].Name
        /\ ups[i].done /\ ups[i].pc = "exited" /\ ups[i].Nodes # <<>>
        /\ upstreams[ups[j].Name] = j
        /\ ~ups[j].first
        /\ runPc = "send"
        /\ \E k \in 1..Len(snap.Upstreams) : snap.Upstreams[k].Name = ups[j].Name


(***************************************************************************)
(* Claims about failed calls, sidecar discovery and start-up.              *)
(***************************************************************************)
\* a step that leaves alone what the subscribers share with genCfg, the
\* snapshot signal, the barrier, the `first` flags, Run and the loop
ErrorFrame ==
    /\ UNCHANGED <<upstreams, downstream, startPort, caHeap, certCAs, svcDef>>
    /\ UNCHANGED <<update, wgReady, subFirst, reflects>>
    /\ UNCHANGED <<runPc, snap, snapDown, received, loopVars>>
    /\ Len(ups') = Len(ups)
    /\ \A j \in 1..Len(ups) :
           [ups'[j] EXCEPT !.pc = "poll"] = [ups[j] EXCEPT !.pc = "poll"]

\* C31: a failed call of a subscriber or of an upstream goroutine puts it in
\* a sleep of errorWaitTime and changes nothing else; the step that ends the
\* sleep resets the token (where the call has one), changes nothing else
\* either, and leaves the task in its loop, at the call again (an upstream
\* goroutine at the top of its loop).
C31_ErrorOnlyPauses ==
    [][/\ \A t \in Subs :
              /\ (poller[t].sleep = 0 /\ poller'[t].sleep # 0)
                     => /\ poller'[t] = [poller[t] EXCEPT
                                            !.sleep = errorWaitTime]
                        /\ subPc'[t] = "poll" /\ subPc[t] = "poll"
                        /\ ups' = ups
                        /\ ErrorFrame
              /\ (poller[t].sleep # 0 /\ poller'[t] # poller[t])
                     => /\ poller'[t] = NewPoller
                        /\ subPc'[t] = "poll"
                        /\ ups' = ups
                        /\ ErrorFrame
       /\ \A i \in 1..Len(ups) :
              /\ (upPoller[i].sleep = 0 /\ upPoller'[i].sleep # 0)
                     => /\ upPoller'[i] = [upPoller[i] EXCEPT
                                              !.sleep = errorWaitTime]
                        /\ ups' = ups /\ ups[i].pc = "poll"
                        /\ ErrorFrame
              /\ (upPoller[i].sleep # 0 /\ upPoller'[i] # upPoller[i])
                     => /\ upPoller'[i].sleep = 0
                        /\ Indexed(ups[i].Name) => upPoller'[i].token = 0
                        /\ ups'[i].pc = "check"
                        /\ ErrorFrame]_vars

\* a subscriber whose call failed after its first response has slept and is
\* at its call again, without a token and with `first` still false
C31_Witness ==
    \E t \in Subs :
        /\ ~subFirst[t]
        /\ subPc[t] = "poll"
        /\ poller[t] = NewPoller


\* the delays Run sleeps between attempts: 1 s, then twice the one before
\* while that stays within 5 s
CappedDelays == {1000, 2000, 4000}

\* C32: Run makes at most maxRetries lookups, no sleep of the discovery loop
\* is longer than 5 s, the first one is 1 s, and Run fails only after
\* maxRetries failed lookups.
C32_BoundedBackoff ==
    /\ lookup.i <= maxRetries
    /\ lookup.slept <= 5000
    /\ lookup.i = 1 => lookup.slept = 1000
    /\ lookup.slept # 0 => lookup.slept \in CappedDelays
    /\ runPc = "failed" => lookup.i = maxRetries /\ lookup.err


\* C33: when a registered service of kind connect-proxy declares the
\* watched service as its destination, the ID findSidecarProxy returned is
\* that of such a service, not of one matched by the name pattern only.
C33_KindMatchFirst ==
    (runPc = "lookup" /\ \E r \in services : ByKind(r))
        => \E r \in services : r.ID = lookup.proxyID /\ ByKind(r)


\* the positions of a round after the start of the proxy
PastStart == {"Generate", "Render", "ApplyConfig", "WaitAndRetry"}

\* C34: the loop enters Start only from the throttle window of a round that
\* has received an input, with nothing generated, rendered or applied yet;
\* it leaves Start with the master PID or for good; once started it never
\* enters Start again; and no ApplyConfig is called, and no reload signal
\* sent, without the master PID.
C34_StartedOnceFirst ==
    /\ [](pc = "Start" => ~started /\ inputReceived)
    /\ [](~started => /\ pc \notin PastStart
                      /\ newState = ZeroState /\ config = EmptyText
                      /\ applyCalls = 0 /\ reloads = 0 /\ masterPID = 0)
    /\ []((pc = "ApplyConfig" \/ applyCalls > 0 \/ reloads > 0)
              => started /\ masterPID = ProxyPID)
    /\ [][/\ (pc' = "Start" /\ pc # "Start") => pc = "Throttle" /\ ~started
          /\ (pc = "Start" /\ pc' # "Start")
                 => \/ started' /\ masterPID' = ProxyPID /\ pc' = "Generate"
                    \/ ~started' /\ pc' = "Done"
          /\ started => started' /\ pc' # "Start"
                        /\ masterPID' = masterPID]_vars

\* a later round, after a successful apply, has left the throttle window
\* and is generating its state
C34_Witness ==
    /\ pc = "Generate"
    /\ applyOks >= 1
    /\ started


(***************************************************************************)
(* Claims about the supervisor's ready signal.                             *)
(***************************************************************************)
\* C35: a log reader at its send can always take its next step, whatever
\* readyCh holds and whether or not Start has returned; readyCh never holds
\* more than one signal; and the step takes the reader back to its scan.
C35_ReadySendNeverBlocks ==
    /\ [](readyCh \in {0, 1})
    /\ [](\A r \in Readers : logPc[r] = "send" => ENABLED LogSend(r))
    /\ [][\A r \in Readers :
              (logPc[r] = "send" /\ logPc'[r] # "send")
                  => /\ logPc'[r] = "scan"
                     /\ readyCh' = 1]_vars

\* Start has returned, a signal sent after that is in readyCh, and a reader
\* has read one more marker line: its send finds the channel full
C35_Witness ==
    /\ started
    /\ readyCh = 1
    /\ \E r \in Readers : logPc[r] = "send"


(***************************************************************************)
(* Claims about failed rounds and the installed file.                      *)
(***************************************************************************)
\* the round fails in this step: Generate, Render or a step of ApplyConfig
\* returns an error
RoundFails ==
    \/ pc = "Generate" /\ pc' = "Throttle" /\ failBudget' < failBudget
    \/ pc = "Render" /\ pc' = "WaitAndRetry"
    \/ pc = "ApplyConfig" /\ pc' = "WaitAndRetry"

\* C36: a step in which the round fails leaves currentState and ready (and
\* h.Ready) as they were; they change only in the step in which ApplyConfig
\* returns nil, so the state a round compares with is the one of the last
\* ApplyConfig that returned nil (the zero state before the first).
C36_FailedRoundKeepsState ==
    /\ [][RoundFails => UNCHANGED <<currentState, ready, readyCloses>>]_vars
    /\ [][(currentState' # currentState \/ ready' # ready)
              => /\ pc = "ApplyConfig" /\ step = Len(ApplySteps)
                 /\ lastApply'.err = NoErr
                 /\ applyOks' = applyOks + 1
                 /\ currentState' = newState /\ ready']_vars
    /\ [](applyOks = 0 => currentState = ZeroState /\ ~ready)
    /\ [](applyOks > 0 => ready /\ lastReload.text = Render(currentState))

\* after a successful apply a later ApplyConfig has failed, and the round
\* after that is at its Generate
C36_Witness ==
    /\ pc = "Generate"
    /\ applyOks >= 1
    /\ applyCalls > applyOks
    /\ lastApply.err # NoErr


\* C39: after an ApplyConfig that returned an error the installed file has
\* the content it had when the call was made, and outside a call of
\* ApplyConfig the installed file is the rendering of currentState (the
\* base configuration before the first successful apply).
C39_FailedApplyKeepsInstalled ==
    /\ (applyCalls > 0 /\ lastApply.err # NoErr)
           => lastApply.cfgAfter = lastApply.cfgBefore
    /\ pc # "ApplyConfig"
           => cfgFile = IF applyOks = 0 THEN BaseText
                        ELSE Render(currentState)


(***************************************************************************)
(* Claims about the shutdown barrier.                                      *)
(***************************************************************************)
\* the tasks counted by the barrier that have not exited yet
Counted ==
    (IF hapPc # "exited" THEN 1 ELSE 0)
        + (IF cleanupPc \in {"waiting", "removed"} THEN 1 ELSE 0)
        + (IF cfgPc \notin {"idle", "ok", "err"} /\ cleanupPc = "none"
           THEN 1 ELSE 0)

\* C38: the counter of the barrier is the number of counted tasks still to
\* exit, so it is never negative, and main's sd.Wait() has returned only
\* when every counted task has exited and the base directory is gone.
C38_CounterMatchesTasks ==
    /\ sdCount >= 0
    /\ sdCount = Counted
    /\ mainPc = "returned"
           => /\ hapPc = "exited"
              /\ cleanupPc \in {"none", "exited"}
              /\ ~baseDir


(***************************************************************************)
(* Claims about the entries of the authorization cache.                    *)
(***************************************************************************)
\* C40: every entry is allocated with its fetch running and its signal
\* open; an entry changes only in the one step in which its own fetch
\* completes, which stores the value and closes the signal, and never after;
\* and a call woken by the signal returns the value of the entry it waited
\* on, whichever entry authCache holds by then.
C40_OneFetchPerEntry ==
    /\ [](\A e \in 1..Len(heap) :
              (heap[e].C = "closed") <=> (heap[e].fetch \in {"ok", "err"}))
    /\ [](\A c \in Callers :
              (callPc[c] = "returned" /\ callRes[c].err = "")
                  => /\ heap[waitOn[c]].C = "closed"
                     /\ callRes[c].value = heap[waitOn[c]].Value)
    /\ [][/\ Len(heap') >= Len(heap)
          /\ \A e \in 1..Len(heap) :
                 heap'[e] # heap[e]
                     => /\ heap[e].fetch = "running" /\ heap[e].C = "open"
                        /\ heap'[e].C = "closed"
                        /\ heap'[e].fetch \in {"ok", "err"}
          /\ \A e \in (Len(heap) + 1)..Len(heap') :
                 heap'[e].fetch = "running" /\ heap'[e].C = "open"]_vars

\* a call woken by the signal of a replaced entry has returned that entry's
\* value, which differs from the value of the entry authCache holds
C40_Witness ==
    \E c \in Callers :
        /\ callPc[c] = "returned"
        /\ callRes[c].err = ""
        /\ waitOn[c] # authCache
        /\ heap[authCache].Value # callRes[c].value

\* C37: snapshots are emitted and applied in causal order: of two
\* snapshots sent one after the other, the later reflects for every field a
\* version at least as new as the earlier, and the snapshot under
\* construction one at least as new as the last sent, which is the one
\* built last whenever none is waiting to be sent; the loop is in at
\* most one apply at a time, and the state it renders and applies is the
\* one generated from the newest snapshot it has received, never from an
\* older one.
C37_CausalOrder ==
    /\ \A f \in DOMAIN order.ver :
           /\ Version(order.prev, f) <= Version(order.last, f)
           /\ Version(order.last, f) <= Version(order.built, f)
           /\ Version(order.built, f) <= Version(order.ver, f)
    /\ runPc # "send" => order.last = order.built
    /\ pc \in {"Render", "ApplyConfig"} =>
           /\ currentConfig = lastDelivered
           /\ newState = Generate(Opts, lastDelivered)
    /\ pc # "ApplyConfig" => step = 0 /\ callEntry = NoCall

\* C37 witness: two snapshots have been sent and the second reflects a
\* newer version of a field the first had already
C37_Witness ==
    /\ order.sent = 2
    /\ \E f \in DOMAIN order.prev : order.last[f] > order.prev[f]

============================================================================
